---- MODULE Spec2Model ----
(***************************************************************************)
(* The ESXi MCP server: the tool dispatch gateway (mcp_server.py), the     *)
(* auth gate and the tool handlers (tools.py) and the VMware manager's     *)
(* operations (vmware_manager.py), over an abstract vSphere inventory.     *)
(*                                                                         *)
(* The handlers are synchronous: one call is served at a time, and a       *)
(* mutating call stays in its wait loop until the task it submitted is     *)
(* terminal.  The platform (inventory, tasks, clock) is the environment.   *)
(***************************************************************************)
EXTENDS Integers, Sequences, FiniteSets, TLC

VARIABLES
    config,         \* the connection and placement settings of Config
    inventory,      \* the platform's inventory tree below its root folder
    si,             \* the service instance: None, or how its session was made
    api_key,        \* config.api_key: None or the configured key
    authenticated,  \* VMwareManager.authenticated
    scope,          \* datacenter_obj, resource_pool, datastore_obj, network_obj
    vms,            \* the inventory's virtual machines, by name
    task,           \* the task the current call submitted (or waits for)
    pc,             \* where the serving thread is
    call,           \* the call being served (or served last)
    result,         \* its response (kind "none" while it is being served)
    remote,         \* the platform calls the call made, in order
    elapsed,        \* seconds since the current wait began
    spins,          \* reads of the task state in a wait loop since the last sleep
    timeout,        \* wait_for_task's timeout argument
    host,           \* the host system's quickStats and hardware
    perfManager,    \* the performance manager: its counters and what a query gives
    guest,          \* the process started in the guest, as the guest reports it
    wait_count,     \* execute_program_in_vm's count of polls
    inflight        \* the requests received and not yet answered, oldest first

vars == <<config, inventory, si, api_key, authenticated, scope, vms, task, pc,
          call, result, remote, elapsed, spins, timeout, host, perfManager,
          guest, wait_count, inflight>>

----------------------------------------------------------------------------
(* Bounds *)

\* The platform refuses a snapshot beyond this many on one VM.
MaxSnaps == 1
\* The clock of a wait stops advancing here.
MaxTime == 4
\* The largest timeout handed to wait_for_task.
MaxTimeout == 2
\* Reads of the task state without a sleep are counted up to here.
MaxSpins == 2
\* The largest snapshot forest a VM starts with, in nodes.
MaxNodes == 4
\* The largest CPU (MHz) and memory (MB) usage a host reports.
MaxUsage == 3
\* The most series a performance query returns.
MaxSeries == 2
\* The most requests received and not yet answered.
MaxInflight == 2

----------------------------------------------------------------------------
(* Values *)

None == "None"

VMNames == {"vm1", "vm2"}
HostNames == {"host1"}
SnapNames == {"s1", "s2"}
Datastores == {"ds1", "ds2"}
Networks == {"net1"}
\* Names a caller may give that are in no inventory.
GhostHost == "host9"
GhostDatastore == "ds9"
GhostNetwork == "net9"
Faults == {"F1", "F2"}
Keys == {"k1", "k2"}

PowerStates == {"poweredOn", "poweredOff", "suspended"}

Leaf(n) == [name |-> n, children |-> <<>>]
Node(n, cs) == [name |-> n, children |-> cs]

NoVM == [exists |-> FALSE, power |-> "poweredOff", snaps |-> <<>>]
NewVM == [exists |-> TRUE, power |-> "poweredOff", snaps |-> <<>>]

NoTask == [kind |-> "none", vm |-> None, path |-> <<>>, name |-> None,
           flag |-> FALSE, ds |-> None, net |-> None,
           state |-> "none", error |-> None]

NoArgs == [bind |-> TRUE, a |-> None, b |-> None, ds |-> None, net |-> None,
           flag |-> FALSE]

NoCall == [via |-> "none", name |-> None, args |-> NoArgs]

NoResult == [kind |-> "none", err |-> None, detail |-> None, data |-> <<>>]

Terminal == {"success", "error"}

----------------------------------------------------------------------------
(* The inventory: the children of the root folder, in the order the platform
   enumerates them.  A datacenter carries its three folders. *)

DatacenterEntity(n, hf, dsf, nf) ==
    [kind |-> "Datacenter", name |-> n, hostFolder |-> hf,
     datastoreFolder |-> dsf, networkFolder |-> nf]
RootFolderEntity(n) ==
    [kind |-> "Folder", name |-> n, hostFolder |-> <<>>,
     datastoreFolder |-> <<>>, networkFolder |-> <<>>]
ClusterEntity(n, pool) ==
    [kind |-> "ClusterComputeResource", name |-> n, resourcePool |-> pool]
HostEntity(n, pool) ==
    [kind |-> "ComputeResource", name |-> n, resourcePool |-> pool]
DatastoreEntity(n, free) == [kind |-> "Datastore", name |-> n, freeSpace |-> free]
StoragePodEntity(n) == [kind |-> "StoragePod", name |-> n, freeSpace |-> 0]
NetworkEntity(n) == [kind |-> "Network", name |-> n]
NetworkFolderEntity(n) == [kind |-> "Folder", name |-> n]

\* isinstance(x, vim.Datacenter), (x, vim.ClusterComputeResource),
\* (x, vim.ComputeResource) (a cluster is a compute resource), (x, vim.Datastore)
IsDatacenter(x) == x.kind = "Datacenter"
IsCluster(x) == x.kind = "ClusterComputeResource"
IsComputeResource(x) == x.kind \in {"ComputeResource", "ClusterComputeResource"}
IsDatastore(x) == x.kind = "Datastore"

\* next((x for x in s if test(x)), None), given the sequence of the tests'
\* outcomes: the index of the first element that passes, 0 for None.
NextIndex(passes) ==
    IF \E i \in 1..Len(passes) : passes[i]
    THEN CHOOSE i \in 1..Len(passes) :
            passes[i] /\ \A j \in 1..(i - 1) : ~passes[j]
    ELSE 0

RECURSIVE MinFrom(_, _, _)
\* Mutant: the comparison is the wrong way round.
MinFrom(s, i, best) ==
    IF i > Len(s) THEN best
    ELSE MinFrom(s, i + 1,
                 IF s[i].freeSpace < s[best].freeSpace THEN i ELSE best)

RECURSIVE MaxFrom(_, _, _)
\* max(datastores, key=lambda ds: ds.summary.freeSpace) from the i-th element
\* on: the first element no later one exceeds.
MaxFrom(s, i, best) ==
    IF i > Len(s) THEN best
    ELSE MaxFrom(s, i + 1,
                 IF s[i].freeSpace > s[best].freeSpace THEN i ELSE best)

----------------------------------------------------------------------------
(* The snapshot tree: a forest of nodes [name, children] *)

RECURSIVE FindFrom(_, _, _)
\* The loop of _find_snapshot_by_name from the i-th snapshot of the list on:
\* the path (child indices from the roots) of the node found, <<>> for None.
FindFrom(snapshots, name, i) ==
    IF i > Len(snapshots) THEN <<>>
    ELSE IF snapshots[i].name = name THEN <<i>>
    ELSE LET r == IF snapshots[i].children # <<>>
                  THEN FindFrom(snapshots[i].children, name, 1)
                  ELSE <<>>
         IN  IF r # <<>> THEN <<i>> \o r
             ELSE FindFrom(snapshots, name, i + 1)

RECURSIVE FindFromChildrenFirst(_, _, _)
FindFromChildrenFirst(snapshots, name, i) ==
    IF i > Len(snapshots) THEN <<>>
    ELSE LET r == IF snapshots[i].children # <<>>
                  THEN FindFromChildrenFirst(snapshots[i].children, name, 1)
                  ELSE <<>>
         IN  IF r # <<>> THEN <<i>> \o r
             ELSE IF snapshots[i].name = name THEN <<i>>
             ELSE FindFromChildrenFirst(snapshots, name, i + 1)

\* Mutant: the children of a snapshot are searched before its own name is
\* tested.
find_snapshot_children_first(snapshots, name) ==
    FindFromChildrenFirst(snapshots, name, 1)

_find_snapshot_by_name(snapshots, name) == FindFrom(snapshots, name, 1)

RECURSIVE CollectFrom(_, _, _)
\* The loop of _collect_snapshots from the i-th snapshot of the list on.
CollectFrom(snapshots, level, i) ==
    IF i > Len(snapshots) THEN <<>>
    ELSE <<[name |-> snapshots[i].name, level |-> level]>>
         \o (IF snapshots[i].children # <<>>
             THEN CollectFrom(snapshots[i].children, level + 1, 1)
             ELSE <<>>)
         \o CollectFrom(snapshots, level, i + 1)

RECURSIVE CollectFromSameLevel(_, _, _)
CollectFromSameLevel(snapshots, level, i) ==
    IF i > Len(snapshots) THEN <<>>
    ELSE <<[name |-> snapshots[i].name, level |-> level]>>
         \o (IF snapshots[i].children # <<>>
             THEN CollectFromSameLevel(snapshots[i].children, level, 1)
             ELSE <<>>)
         \o CollectFromSameLevel(snapshots, level, i + 1)

\* Mutant: the recursion passes level where it should pass level + 1.
collect_snapshots_same_level(snapshots, level) ==
    CollectFromSameLevel(snapshots, level, 1)

_collect_snapshots(snapshots, level) == CollectFrom(snapshots, level, 1)

RECURSIVE CountSnaps(_)
CountSnaps(snapshots) ==
    IF snapshots = <<>> THEN 0
    ELSE 1 + CountSnaps(Head(snapshots).children) + CountSnaps(Tail(snapshots))

RECURSIVE AddSnapshot(_, _)
\* The platform takes a snapshot as a child of the current one (here the
\* newest: the last node of the last root's chain).
AddSnapshot(snapshots, name) ==
    IF snapshots = <<>> THEN <<Leaf(name)>>
    ELSE LET n == Len(snapshots)
             last == snapshots[n]
         IN  [snapshots EXCEPT ![n] =
                 Node(last.name, AddSnapshot(last.children, name))]

SpliceAt(s, i, r) == SubSeq(s, 1, i - 1) \o r \o SubSeq(s, i + 1, Len(s))

RECURSIVE RemoveAt(_, _, _)
\* The platform removes the node at a path, with its subtree or keeping its
\* children in its place.
RemoveAt(snapshots, path, removeChildren) ==
    LET i == Head(path)
    IN  IF i > Len(snapshots) THEN snapshots
        ELSE IF Len(path) = 1
        THEN SpliceAt(snapshots, i,
                      IF removeChildren THEN <<>> ELSE snapshots[i].children)
        ELSE [snapshots EXCEPT ![i] =
                 Node(snapshots[i].name,
                      RemoveAt(snapshots[i].children, Tail(path), removeChildren))]

----------------------------------------------------------------------------
(* Responses and the steps every handler ends in *)

Min(a, b) == IF a < b THEN a ELSE b

RECURSIVE CountOf(_, _)
\* How many times the platform call c is in the record rem.
CountOf(rem, c) ==
    IF rem = <<>> THEN 0
    ELSE (IF Head(rem) = c THEN 1 ELSE 0) + CountOf(Tail(rem), c)

\* The call returns or raises: its response is ready.
Respond(res, rem) ==
    /\ result' = res
    /\ remote' = rem
    /\ pc' = "done"
    /\ task' = NoTask
    /\ elapsed' = 0
    /\ spins' = 0
    /\ UNCHANGED <<inflight, config, inventory, host, perfManager, guest, wait_count, si, api_key, authenticated, scope, vms, timeout>>

Return(detail, rem) ==
    Respond([kind |-> "ok", err |-> None, detail |-> detail, data |-> <<>>], rem)

ReturnData(detail, data, rem) ==
    Respond([kind |-> "ok", err |-> None, detail |-> detail, data |-> data], rem)

Raise(err, detail, rem) ==
    Respond([kind |-> "error", err |-> err, detail |-> detail, data |-> <<>>], rem)

NewTask(kind, vm) == [NoTask EXCEPT !.kind = kind, !.vm = vm, !.state = "queued"]

\* The call submitted a task and enters its wait loop
\* (while task.info.state not in [success, error]: continue).
Submit(t, rem) ==
    /\ task' = t
    /\ remote' = rem \o <<"submit">>
    /\ pc' = "op_loop"
    /\ result' = NoResult
    /\ elapsed' = 0
    /\ spins' = 0
    /\ UNCHANGED <<inflight, config, inventory, host, perfManager, guest, wait_count, si, api_key, authenticated, scope, vms, timeout>>

----------------------------------------------------------------------------
(* VMwareManager: lookups *)

find_vm(name) == IF name \in VMNames /\ vms[name].exists THEN name ELSE None

find_host(name) == IF name \in HostNames THEN name ELSE None

\* The entry of the root folder that scope.datacenter names.
datacenter_obj ==
    inventory[NextIndex([k \in 1..Len(inventory) |->
                    IsDatacenter(inventory[k]) /\ inventory[k].name = scope.datacenter])]

\* next((ds for ds in ...datastoreFolder.childEntity
\*       if isinstance(ds, vim.Datastore) and ds.name == name), None)
find_datastore(name) ==
    IF NextIndex([k \in 1..Len(datacenter_obj.datastoreFolder) |->
                    /\ IsDatastore(datacenter_obj.datastoreFolder[k])
                    /\ datacenter_obj.datastoreFolder[k].name = name]) # 0
    THEN name ELSE None

\* next((net for net in networks if net.name == name), None)
find_network(name) ==
    IF NextIndex([k \in 1..Len(datacenter_obj.networkFolder) |->
                    datacenter_obj.networkFolder[k].name = name]) # 0
    THEN name ELSE None

\* The container view of every vim.Datastore below the root folder, searched
\* for the name (upload_file_to_datastore).
find_datastore_in_view(name) ==
    IF \E i \in 1..Len(inventory) :
          /\ IsDatacenter(inventory[i])
          /\ NextIndex([k \in 1..Len(inventory[i].datastoreFolder) |->
                    /\ IsDatastore(inventory[i].datastoreFolder[k])
                    /\ inventory[i].datastoreFolder[k].name = name]) # 0
    THEN name ELSE None

----------------------------------------------------------------------------
(* VMwareManager: mutating operations, up to the submission of their task *)

\* Mutant: the per-call datastore and network are stored as the defaults.
CreateSpecStoringOverride(kind, args) ==
    LET ds  == IF args.ds # None THEN find_datastore(args.ds) ELSE scope.datastore
        net == IF args.net # None THEN find_network(args.net) ELSE scope.network
    IN  IF (args.ds # None /\ ds = None) \/ (args.net # None /\ net = None)
        THEN Raise("NotFound", None, <<"lookup">>)
        ELSE /\ scope' = [scope EXCEPT !.datastore = ds, !.network = net]
             /\ task' = [NewTask(kind, args.a) EXCEPT !.ds = ds, !.net = net]
             /\ remote' = <<"submit">>
             /\ pc' = "op_loop"
             /\ result' = NoResult
             /\ elapsed' = 0
             /\ spins' = 0
             /\ UNCHANGED <<inflight, config, inventory, host, perfManager, guest,
                            wait_count, si, api_key, authenticated, vms, timeout>>

CreateSpecOrRaise(kind, args) ==
    LET ds  == IF args.ds # None THEN find_datastore(args.ds) ELSE scope.datastore
        net == IF args.net # None THEN find_network(args.net) ELSE scope.network
        r1  == IF args.ds # None THEN <<"lookup">> ELSE <<>>
        r2  == IF args.net # None THEN <<"lookup">> ELSE <<>>
    IN  IF args.ds # None /\ ds = None
        THEN Raise("NotFound", args.ds, r1)
        ELSE IF args.net # None /\ net = None
        THEN Raise("NotFound", args.net, r1 \o r2)
        ELSE Submit([NewTask(kind, args.a) EXCEPT !.ds = ds, !.net = net],
                    r1 \o r2)

create_vm(args) == CreateSpecOrRaise("CreateVM_Task", args)

create_vm_custom(args) == CreateSpecOrRaise("CreateVM_Task_custom", args)

clone_vm(args) ==
    LET template_vm == find_vm(args.a)
    IN  IF template_vm = None
        THEN Raise("NotFound", args.a, <<"lookup">>)
        ELSE Submit([NewTask("Clone", template_vm) EXCEPT
                        !.name = args.b, !.ds = scope.datastore],
                    <<"lookup">>)

delete_vm(args) ==
    LET vm == find_vm(args.a)
    IN  IF vm = None
        THEN Raise("NotFound", args.a, <<"lookup">>)
        ELSE Submit(NewTask("Destroy_Task", vm), <<"lookup">>)

\* Mutant: no test of the power state before the task is submitted.
power_on_vm_without_state_test(args) ==
    LET vm == find_vm(args.a)
    IN  IF vm = None
        THEN Raise("NotFound", args.a, <<"lookup">>)
        ELSE Submit(NewTask("PowerOnVM_Task", vm), <<"lookup">>)

power_on_vm(args) ==
    LET vm == find_vm(args.a)
    IN  IF vm = None
        THEN Raise("NotFound", args.a, <<"lookup">>)
        ELSE IF vms[vm].power = "poweredOn"
        THEN Return("already powered on", <<"lookup">>)
        ELSE Submit(NewTask("PowerOnVM_Task", vm), <<"lookup">>)

power_off_vm(args) ==
    LET vm == find_vm(args.a)
    IN  IF vm = None
        THEN Raise("NotFound", args.a, <<"lookup">>)
        ELSE IF vms[vm].power = "poweredOff"
        THEN Return("already powered off", <<"lookup">>)
        ELSE Submit(NewTask("PowerOffVM_Task", vm), <<"lookup">>)

create_snapshot(args) ==
    LET vm == find_vm(args.a)
    IN  IF vm = None
        THEN Raise("NotFound", args.a, <<"lookup">>)
        ELSE Submit([NewTask("CreateSnapshot", vm) EXCEPT
                        !.name = args.b, !.flag = args.flag],
                    <<"lookup">>)

remove_snapshot(args) ==
    LET vm == find_vm(args.a)
    IN  IF vm = None
        THEN Raise("NotFound", args.a, <<"lookup">>)
        ELSE IF vms[vm].snaps = <<>>
        THEN Raise("NoSnapshots", args.a, <<"lookup">>)
        ELSE LET snapshot == _find_snapshot_by_name(vms[vm].snaps, args.b)
             IN  IF snapshot = <<>>
                 THEN Raise("NotFound", args.b, <<"lookup">>)
                 ELSE Submit([NewTask("RemoveSnapshot_Task", vm) EXCEPT
                                 !.path = snapshot, !.name = args.b,
                                 !.flag = args.flag],
                             <<"lookup">>)

revert_snapshot(args) ==
    LET vm == find_vm(args.a)
    IN  IF vm = None
        THEN Raise("NotFound", args.a, <<"lookup">>)
        ELSE IF vms[vm].snaps = <<>>
        THEN Raise("NoSnapshots", args.a, <<"lookup">>)
        ELSE LET snapshot == _find_snapshot_by_name(vms[vm].snaps, args.b)
             IN  IF snapshot = <<>>
                 THEN Raise("NotFound", args.b, <<"lookup">>)
                 ELSE Submit([NewTask("RevertToSnapshot_Task", vm) EXCEPT
                                 !.path = snapshot, !.name = args.b],
                             <<"lookup">>)

remove_all_snapshots(args) ==
    LET vm == find_vm(args.a)
    IN  IF vm = None
        THEN Raise("NotFound", args.a, <<"lookup">>)
        ELSE IF vms[vm].snaps = <<>>
        THEN Return("no snapshots to remove", <<"lookup">>)
        ELSE Submit(NewTask("RemoveAllSnapshots", vm), <<"lookup">>)

----------------------------------------------------------------------------
(* VMwareManager: read-only and guest operations *)

list_vms == Return("vm names", <<"lookup">>)
list_templates == Return("templates", <<"lookup">>)
list_datastores == Return("datastores", <<"lookup">>)
list_datastore_clusters == Return("datastore clusters", <<"lookup">>)
list_networks == Return("networks", <<"lookup">>)
list_hosts == Return("hosts", <<"lookup">>)
list_performance_counters == Return("performance counters", <<"lookup">>)

VmRecordOrRaise(args, what) ==
    IF find_vm(args.a) = None
    THEN Raise("NotFound", args.a, <<"lookup">>)
    ELSE Return(what, <<"lookup">>)

HostRecordOrRaise(args, what) ==
    IF find_host(args.a) = None
    THEN Raise("NotFound", args.a, <<"lookup">>)
    ELSE Return(what, <<"lookup">>)

get_vm_details(args) == VmRecordOrRaise(args, "vm details")
get_vm_summary_stats(args) == VmRecordOrRaise(args, "vm summary stats")
get_host_details(args) == HostRecordOrRaise(args, "host details")
get_host_performance_metrics(args) == HostRecordOrRaise(args, "host metrics")
get_host_hardware_health(args) == HostRecordOrRaise(args, "host health")

\* A host without hardware information.
NoHardware ==
    [present |-> FALSE, cpuInfo |-> FALSE, numCpuCores |-> 0, hz |-> 0,
     memorySize |-> 0]

\* A number the platform may leave unset: Nothing is Python's None.
Nothing == <<>>
Some(v) == <<v>>

\* round(x, 2): to the nearest hundredth, a tie to the even one.
\* The result of num / den is counted in whole units.
RoundHalfEven(num, den) ==
    LET q == num \div den
        r == num % den
    IN  IF 2 * r < den THEN q
        ELSE IF 2 * r > den THEN q + 1
        ELSE IF q % 2 = 0 THEN q ELSE q + 1

\* Mutant: the percentage is computed whatever the total is.
percent_without_zero_test(usage, total) ==
    IF usage = Nothing THEN [raised |-> "TypeError", value |-> 0]
    ELSE IF total = 0 THEN [raised |-> "ZeroDivisionError", value |-> 0]
    ELSE [raised |-> None, value |-> RoundHalfEven(usage[1] * 10000, total)]

\* round(usage / total * 100, 2) if total > 0 else 0, in hundredths of a
\* percent; a usage the platform left unset (None) cannot be divided.
percent(usage, total) ==
    IF total > 0
    THEN IF usage = Nothing THEN [raised |-> "TypeError", value |-> 0]
         ELSE [raised |-> None, value |-> RoundHalfEven(usage[1] * 10000, total)]
    ELSE [raised |-> None, value |-> 0]

\* The stats dictionary of get_host_performance, or the exception raised
\* while it is filled.
host_stats(h) ==
    LET basic == [cpu_usage_mhz   |-> IF h.qs THEN h.overallCpuUsage ELSE Some(0),
                  memory_usage_mb |-> IF h.qs THEN h.overallMemoryUsage ELSE Some(0),
                  uptime_seconds  |-> IF h.qs THEN h.uptime ELSE 0]
        hw == h.hardware
        total_cpu_mhz ==
            IF hw.cpuInfo THEN hw.numCpuCores * (hw.hz \div 1000000) ELSE 0
        total_memory_mb ==
            IF hw.memorySize # 0 THEN hw.memorySize \div 1048576 ELSE 0
        cpu_pct == percent(basic.cpu_usage_mhz, total_cpu_mhz)
        mem_pct == percent(basic.memory_usage_mb, total_memory_mb)
    IN  IF ~hw.present THEN [raised |-> None, stats |-> basic]
        ELSE IF cpu_pct.raised # None
        THEN [raised |-> cpu_pct.raised, stats |-> basic]
        ELSE IF mem_pct.raised # None
        THEN [raised |-> mem_pct.raised, stats |-> basic]
        ELSE [raised |-> None,
              stats |-> [cpu_usage_mhz        |-> basic.cpu_usage_mhz,
                         memory_usage_mb      |-> basic.memory_usage_mb,
                         uptime_seconds       |-> basic.uptime_seconds,
                         cpu_total_mhz        |-> total_cpu_mhz,
                         cpu_usage_percent    |-> cpu_pct.value,
                         memory_total_mb      |-> total_memory_mb,
                         memory_usage_percent |-> mem_pct.value]]

\* The host the server is run against: two cores of 2 GHz, 3 MB of memory.
ServedHost ==
    [qs |-> TRUE, overallCpuUsage |-> Some(1), overallMemoryUsage |-> Some(1),
     uptime |-> 1,
     hardware |-> [present |-> TRUE, cpuInfo |-> TRUE, numCpuCores |-> 2,
                   hz |-> 2000000, memorySize |-> 3145728]]

get_host_performance(args) ==
    IF find_host(args.a) = None
    THEN Raise("NotFound", args.a, <<"lookup">>)
    ELSE LET r == host_stats(host)
         IN  IF r.raised # None
             THEN Raise(r.raised, args.a, <<"lookup">>)
             ELSE ReturnData("host performance", <<r.stats>>, <<"lookup">>)

\* The two counters get_vm_performance asks for, by full name.
NetTransmitted == "net.transmitted.average"
NetReceived == "net.received.average"

RECURSIVE Sum(_)
Sum(values) == IF values = <<>> THEN 0 ELSE Head(values) + Sum(Tail(values))

RECURSIVE counter_ids_from(_, _)
\* for c in pm.perfCounter: if its full name is one of the two: append c.key
counter_ids_from(perfCounter, i) ==
    IF i > Len(perfCounter) THEN <<>>
    ELSE (IF perfCounter[i].name \in {NetTransmitted, NetReceived}
          THEN <<perfCounter[i].key>> ELSE <<>>)
         \o counter_ids_from(perfCounter, i + 1)

\* pm.QueryStats(querySpec=[query]): a fault, or the entity metrics the
\* platform holds, with the series of the counters asked for.
QueryStats(pm, ids) ==
    IF pm.fault THEN [raised |-> "Fault", res |-> <<>>]
    ELSE [raised |-> None,
          res |-> [e \in 1..Len(pm.stats) |->
                     [value |-> SelectSeq(pm.stats[e].value,
                          LAMBDA sr : \E k \in 1..Len(ids) :
                                          ids[k] = sr.id.counterId)]]]

RECURSIVE series_loop(_, _, _, _, _)
\* for series in stats_res[0].value: the first id's series is taken for the
\* transmitted bytes, the second id's for the received bytes; counter_ids[1]
\* raises IndexError when one counter only was found.
series_loop(series, i, ids, tx, rx) ==
    IF i > Len(series) THEN [raised |-> None, tx |-> tx, rx |-> rx]
    ELSE IF series[i].id.counterId = ids[1]
    THEN series_loop(series, i + 1, ids, Sum(series[i].value), rx)
    ELSE IF Len(ids) < 2
    THEN [raised |-> "IndexError", tx |-> tx, rx |-> rx]
    ELSE IF series[i].id.counterId = ids[2]
    THEN series_loop(series, i + 1, ids, tx, Sum(series[i].value))
    ELSE series_loop(series, i + 1, ids, tx, rx)

\* The body of the try block: the counter ids, the query when there are
\* any, and the loop over the series of the first entity.
network_try(pm) ==
    LET ids == counter_ids_from(pm.perfCounter, 1)
        q == QueryStats(pm, ids)
    IN  IF ids = <<>>
        THEN [raised |-> None, tx |-> 0, rx |-> 0, asked |-> FALSE]
        ELSE IF q.raised # None
        THEN [raised |-> q.raised, tx |-> 0, rx |-> 0, asked |-> TRUE]
        ELSE IF q.res = <<>>
        THEN [raised |-> "IndexError", tx |-> 0, rx |-> 0, asked |-> TRUE]
        ELSE LET l == series_loop(q.res[1].value, 1, ids, 0, 0)
             IN  [raised |-> l.raised, tx |-> l.tx, rx |-> l.rx, asked |-> TRUE]

\* One series of a query result: the counter, the instance, the samples.
Series(cid, inst, values) ==
    [id |-> [counterId |-> cid, instance |-> inst], value |-> values]

\* The performance manager the server is run against: both counters, the
\* transmitted one first, one series each.
ServedPerfManager ==
    [perfCounter |-> <<[key |-> 1, name |-> NetTransmitted],
                       [key |-> 2, name |-> NetReceived]>>,
     fault |-> FALSE,
     stats |-> <<[value |-> <<Series(1, "", <<1>>), Series(2, "", <<2>>)>>]>>]

\* No program was started in the guest.
NoProcess == [pid |-> 0, listed |-> FALSE, exitCode |-> Nothing]

\* vm.summary.quickStats and vm.summary.storage of a VM of the inventory.
VmQuickStats == [cpu_usage |-> 1, memory_usage |-> 1, storage_usage |-> 0]

\* The stats dictionary with the network fields given.
vm_stats(tx, rx) ==
    [cpu_usage             |-> VmQuickStats.cpu_usage,
     memory_usage          |-> VmQuickStats.memory_usage,
     storage_usage         |-> VmQuickStats.storage_usage,
     network_transmit_KBps |-> tx,
     network_receive_KBps  |-> rx]

PerfCalls(n) == <<"lookup">> \o (IF n.asked THEN <<"perf">> ELSE <<>>)

\* Mutant: the network counters are read without the try/except.
get_vm_performance_without_try(args) ==
    IF find_vm(args.a) = None
    THEN Raise("NotFound", args.a, <<"lookup">>)
    ELSE LET n == network_try(perfManager)
         IN  IF n.raised # None
             THEN Raise(n.raised, args.a, PerfCalls(n))
             ELSE ReturnData("vm performance", <<vm_stats(Some(n.tx), Some(n.rx))>>,
                             PerfCalls(n))

\* except Exception: the two network fields are None and the call returns.
get_vm_performance(args) ==
    IF find_vm(args.a) = None
    THEN Raise("NotFound", args.a, <<"lookup">>)
    ELSE LET n == network_try(perfManager)
         IN  IF n.raised # None
             THEN ReturnData("vm performance", <<vm_stats(Nothing, Nothing)>>,
                             PerfCalls(n))
             ELSE ReturnData("vm performance", <<vm_stats(Some(n.tx), Some(n.rx))>>,
                             PerfCalls(n))

list_snapshots(args) ==
    LET vm == find_vm(args.a)
    IN  IF vm = None
        THEN Raise("NotFound", args.a, <<"lookup">>)
        ELSE IF vms[vm].snaps = <<>>
        THEN ReturnData("snapshots", <<>>, <<"lookup">>)
        ELSE ReturnData("snapshots", _collect_snapshots(vms[vm].snaps, 0),
                        <<"lookup">>)

\* max_wait = 30  # seconds
max_wait == 30

\* The process right after StartProgramInGuest returned its pid: in the
\* guest's process list, still running or already over.
StartedProcesses ==
    {[pid |-> 1, listed |-> TRUE, exitCode |-> e] : e \in {Nothing, Some(0)}}

\* pid > 0: wait_count = 0, and the loop is entered.
ExecStart(g) ==
    /\ guest' = g
    /\ wait_count' = 0
    /\ pc' = "exec_loop"
    /\ remote' = <<"lookup", "guest_start">>
    /\ result' = NoResult
    /\ task' = NoTask
    /\ elapsed' = 0
    /\ spins' = 0
    /\ UNCHANGED <<inflight, config, inventory, host, perfManager, si, api_key,
                   authenticated, scope, vms, timeout>>

\* Up to the start of the program: the VM, the state of the tools, and
\* StartProgramInGuest (the else branch raises when it gives no pid).
execute_program_in_vm(args) ==
    IF find_vm(args.a) = None
    THEN Raise("NotFound", args.a, <<"lookup">>)
    ELSE \E o \in {"tools", "nopid", "started"} :
            CASE o = "tools" -> Raise("ToolsNotRunning", args.a, <<"lookup">>)
              [] o = "nopid" -> Raise("StartFailed", args.a,
                                      <<"lookup", "guest_start">>)
              [] OTHER       -> \E g \in StartedProcesses : ExecStart(g)

\* The call leaves the loop with its response; the clock of the wait is kept.
ExecRespond(res, rem) ==
    /\ result' = res
    /\ remote' = rem
    /\ pc' = "done"
    /\ UNCHANGED <<inflight, config, inventory, host, perfManager, guest, wait_count, si,
                   api_key, authenticated, scope, vms, task, call, elapsed,
                   spins, timeout>>

\* One turn of the loop: ListProcessesInGuest (which may raise a fault),
\* the return when the first process has an exit code, else sleep(1) and
\* wait_count += 1.
ExecIteration ==
    \E fault \in BOOLEAN :
        IF fault
        THEN ExecRespond([kind |-> "error", err |-> "Fault", detail |-> None,
                          data |-> <<>>], remote \o <<"guest_list">>)
        ELSE IF guest.listed /\ guest.exitCode # Nothing
        THEN ExecRespond([kind |-> "ok", err |-> None, detail |-> "completed",
                          data |-> <<[pid |-> guest.pid,
                                      exit_code |-> guest.exitCode[1],
                                      success |-> guest.exitCode[1] = 0]>>],
                         remote \o <<"guest_list">>)
        ELSE /\ remote' = remote \o <<"guest_list">>
             /\ elapsed' = elapsed + 1
             /\ wait_count' = wait_count + 1
             /\ UNCHANGED <<inflight, config, inventory, host, perfManager, guest, si,
                            api_key, authenticated, scope, vms, task, pc, call,
                            result, spins, timeout>>

\* Mutant: the loop test lets one more turn through.
ExecPollOnceMore ==
    /\ pc = "exec_loop"
    /\ wait_count <= max_wait
    /\ ExecIteration

\* while wait_count < max_wait: ...
ExecPoll ==
    /\ pc = "exec_loop"
    /\ wait_count < max_wait
    /\ ExecIteration

\* The loop ends without an exit code: status running.
ExecGiveUp ==
    /\ pc = "exec_loop"
    /\ ~(wait_count < max_wait)
    /\ ExecRespond([kind |-> "ok", err |-> None, detail |-> "running",
                    data |-> <<[pid |-> guest.pid]>>], remote)

\* The guest: the program ends with an exit code.
GuestExit ==
    /\ pc = "exec_loop"
    /\ guest.exitCode = Nothing
    /\ \E c \in {0, 1} : guest' = [guest EXCEPT !.exitCode = Some(c)]
    /\ UNCHANGED <<inflight, config, inventory, host, perfManager, wait_count, si,
                   api_key, authenticated, scope, vms, task, pc, call, result,
                   remote, elapsed, spins, timeout>>

\* The guest: the process enters or leaves the list the guest reports.
GuestListing ==
    /\ pc = "exec_loop"
    /\ guest' = [guest EXCEPT !.listed = ~guest.listed]
    /\ UNCHANGED <<inflight, config, inventory, host, perfManager, wait_count, si,
                   api_key, authenticated, scope, vms, task, pc, call, result,
                   remote, elapsed, spins, timeout>>

\* requests.put(url, ..., verify=False) in both uploads, whatever config.insecure
UploadVerify == FALSE

\* The entry an upload leaves in the record of platform calls.
Upload(verify) == IF verify THEN "upload" ELSE "upload_unverified"

upload_file_to_vm(args) ==
    IF find_vm(args.a) = None
    THEN Raise("NotFound", args.a, <<"lookup">>)
    ELSE \E o \in {"tools", "uploaded", "http"} :
            CASE o = "tools" -> Raise("ToolsNotRunning", args.a, <<"lookup">>)
              [] o = "http"  -> Raise("UploadFailed", args.a,
                                      <<"lookup", "guest", Upload(UploadVerify)>>)
              [] OTHER       -> Return(o, <<"lookup", "guest",
                                            Upload(UploadVerify)>>)

upload_file_to_datastore(args) ==
    IF find_datastore_in_view(args.ds) = None
    THEN Raise("NotFound", args.ds, <<"lookup">>)
    ELSE \E o \in {"uploaded", "http"} :
            IF o = "http"
            THEN Raise("UploadFailed", args.ds, <<"lookup", Upload(UploadVerify)>>)
            ELSE Return(o, <<"lookup", Upload(UploadVerify)>>)

\* VMwareManager defines no deploy_ovf, deploy_ova or wait_for_updates: the
\* attribute lookup in the tool handler raises.
MissingManagerMethod(name) == Raise("AttributeError", name, <<>>)

----------------------------------------------------------------------------
(* ToolHandlers: the auth gate, then the manager's operation *)

\* Mutant: the gate asks for the flag whether or not a key is configured.
check_auth_without_key_test == authenticated

\* TRUE when _check_auth returns, FALSE when it raises.
_check_auth == ~(api_key # None /\ ~authenticated)

Unauthorized == Raise("Unauthorized", None, <<>>)

tools_create_vm(args) == IF _check_auth THEN create_vm(args) ELSE Unauthorized
tools_clone_vm(args) == IF _check_auth THEN clone_vm(args) ELSE Unauthorized
tools_delete_vm(args) == IF _check_auth THEN delete_vm(args) ELSE Unauthorized
tools_power_on_vm(args) == IF _check_auth THEN power_on_vm(args) ELSE Unauthorized
tools_power_off_vm(args) == IF _check_auth THEN power_off_vm(args) ELSE Unauthorized
tools_list_vms == IF _check_auth THEN list_vms ELSE Unauthorized
tools_get_vm_details(args) == IF _check_auth THEN get_vm_details(args) ELSE Unauthorized
tools_get_vm_performance(args) == IF _check_auth THEN get_vm_performance(args) ELSE Unauthorized
tools_get_vm_summary_stats(args) == IF _check_auth THEN get_vm_summary_stats(args) ELSE Unauthorized
tools_create_vm_custom(args) == IF _check_auth THEN create_vm_custom(args) ELSE Unauthorized
tools_list_templates == IF _check_auth THEN list_templates ELSE Unauthorized
tools_list_datastores == IF _check_auth THEN list_datastores ELSE Unauthorized
tools_list_datastore_clusters == IF _check_auth THEN list_datastore_clusters ELSE Unauthorized
tools_list_networks == IF _check_auth THEN list_networks ELSE Unauthorized
tools_list_hosts == IF _check_auth THEN list_hosts ELSE Unauthorized
tools_get_host_details(args) == IF _check_auth THEN get_host_details(args) ELSE Unauthorized
tools_get_host_performance_metrics(args) == IF _check_auth THEN get_host_performance_metrics(args) ELSE Unauthorized
tools_get_host_hardware_health(args) == IF _check_auth THEN get_host_hardware_health(args) ELSE Unauthorized
tools_get_host_performance(args) == IF _check_auth THEN get_host_performance(args) ELSE Unauthorized
tools_list_performance_counters == IF _check_auth THEN list_performance_counters ELSE Unauthorized
tools_create_snapshot(args) == IF _check_auth THEN create_snapshot(args) ELSE Unauthorized
tools_remove_snapshot(args) == IF _check_auth THEN remove_snapshot(args) ELSE Unauthorized
tools_revert_snapshot(args) == IF _check_auth THEN revert_snapshot(args) ELSE Unauthorized
tools_list_snapshots(args) == IF _check_auth THEN list_snapshots(args) ELSE Unauthorized
tools_remove_all_snapshots(args) == IF _check_auth THEN remove_all_snapshots(args) ELSE Unauthorized
tools_execute_program_in_vm(args) == IF _check_auth THEN execute_program_in_vm(args) ELSE Unauthorized
tools_upload_file_to_vm(args) == IF _check_auth THEN upload_file_to_vm(args) ELSE Unauthorized
tools_upload_file_to_datastore(args) == IF _check_auth THEN upload_file_to_datastore(args) ELSE Unauthorized
tools_deploy_ovf(args) == IF _check_auth THEN MissingManagerMethod("deploy_ovf") ELSE Unauthorized
tools_deploy_ova(args) == IF _check_auth THEN MissingManagerMethod("deploy_ova") ELSE Unauthorized
tools_wait_for_updates(args) == IF _check_auth THEN MissingManagerMethod("wait_for_updates") ELSE Unauthorized
vm_performance_resource(args) == IF _check_auth THEN get_vm_performance(args) ELSE Unauthorized

----------------------------------------------------------------------------
(* The gateway: the dispatch table and the two request handlers *)

RegisteredTools ==
    {"create_vm", "clone_vm", "delete_vm", "power_on_vm", "power_off_vm",
     "list_vms", "get_vm_details", "get_vm_performance", "get_vm_summary_stats",
     "create_vm_custom", "list_templates", "list_datastores",
     "list_datastore_clusters", "list_networks", "list_hosts",
     "get_host_details", "get_host_performance_metrics",
     "get_host_hardware_health", "get_host_performance",
     "list_performance_counters", "create_snapshot", "remove_snapshot",
     "revert_snapshot", "list_snapshots", "remove_all_snapshots",
     "execute_program_in_vm", "upload_file_to_vm", "upload_file_to_datastore",
     "deploy_ovf", "deploy_ova", "wait_for_updates"}

\* The tools whose lambda ignores the arguments (tool_handlers.list_vms()).
NoArgTools ==
    {"list_vms", "list_templates", "list_datastores", "list_datastore_clusters",
     "list_networks", "list_hosts", "list_performance_counters"}

MutatingTools ==
    {"create_vm", "create_vm_custom", "clone_vm", "delete_vm", "power_on_vm",
     "power_off_vm", "create_snapshot", "remove_snapshot", "revert_snapshot",
     "remove_all_snapshots"}

\* handler(**args) on arguments that do not fit the handler's parameters.
BindError == Raise("TypeError", None, <<>>)

tool_handler_map(name, args) ==
    IF name \notin NoArgTools /\ ~args.bind THEN BindError
    ELSE CASE name = "create_vm" -> tools_create_vm(args)
           [] name = "clone_vm" -> tools_clone_vm(args)
           [] name = "delete_vm" -> tools_delete_vm(args)
           [] name = "power_on_vm" -> tools_power_on_vm(args)
           [] name = "power_off_vm" -> tools_power_off_vm(args)
           [] name = "list_vms" -> tools_list_vms
           [] name = "get_vm_details" -> tools_get_vm_details(args)
           [] name = "get_vm_performance" -> tools_get_vm_performance(args)
           [] name = "get_vm_summary_stats" -> tools_get_vm_summary_stats(args)
           [] name = "create_vm_custom" -> tools_create_vm_custom(args)
           [] name = "list_templates" -> tools_list_templates
           [] name = "list_datastores" -> tools_list_datastores
           [] name = "list_datastore_clusters" -> tools_list_datastore_clusters
           [] name = "list_networks" -> tools_list_networks
           [] name = "list_hosts" -> tools_list_hosts
           [] name = "get_host_details" -> tools_get_host_details(args)
           [] name = "get_host_performance_metrics" ->
                  tools_get_host_performance_metrics(args)
           [] name = "get_host_hardware_health" ->
                  tools_get_host_hardware_health(args)
           [] name = "get_host_performance" -> tools_get_host_performance(args)
           [] name = "list_performance_counters" ->
                  tools_list_performance_counters
           [] name = "create_snapshot" -> tools_create_snapshot(args)
           [] name = "remove_snapshot" -> tools_remove_snapshot(args)
           [] name = "revert_snapshot" -> tools_revert_snapshot(args)
           [] name = "list_snapshots" -> tools_list_snapshots(args)
           [] name = "remove_all_snapshots" -> tools_remove_all_snapshots(args)
           [] name = "execute_program_in_vm" ->
                  tools_execute_program_in_vm(args)
           [] name = "upload_file_to_vm" -> tools_upload_file_to_vm(args)
           [] name = "upload_file_to_datastore" ->
                  tools_upload_file_to_datastore(args)
           [] name = "deploy_ovf" -> tools_deploy_ovf(args)
           [] name = "deploy_ova" -> tools_deploy_ova(args)
           [] name = "wait_for_updates" -> tools_wait_for_updates(args)

\* Mutant: the error names a handler that exists.
UnknownToolNamingHandler(name) ==
    Raise("UnknownTool", CHOOSE n \in RegisteredTools : TRUE, <<>>)

\* raise ValueError(f"Unknown tool: {name}"): the text carries the name asked for.
UnknownTool(name) == Raise("UnknownTool", name, <<>>)

call_tool_handler(name, arguments) ==
    /\ pc = "idle"
    /\ call' = [via |-> "tool", name |-> name, args |-> arguments]
    /\ IF name \notin RegisteredTools
       THEN UnknownTool(name)
       ELSE tool_handler_map(name, arguments)

read_resource_handler(scheme, vm_name) ==
    /\ pc = "idle"
    /\ call' = [via |-> "resource", name |-> scheme,
                args |-> [NoArgs EXCEPT !.a = vm_name]]
    /\ IF scheme = "vmstats"
       THEN vm_performance_resource([NoArgs EXCEPT !.a = vm_name])
       ELSE Raise("UnknownResource", scheme, <<>>)

\* The response is handed to the caller (a result as text content, an
\* exception as it is); the thread is ready for the next request.
Reply ==
    /\ pc = "done"
    /\ pc' = "idle"
    /\ call' = NoCall
    /\ result' = NoResult
    /\ remote' = <<>>
    /\ task' = NoTask
    /\ elapsed' = 0
    /\ spins' = 0
    /\ timeout' = 0
    /\ guest' = NoProcess
    /\ wait_count' = 0
    /\ inflight' = IF inflight = <<>> THEN <<>> ELSE Tail(inflight)
    /\ UNCHANGED <<config, inventory, host, perfManager, si, api_key,
                   authenticated, scope, vms>>

----------------------------------------------------------------------------
(* The arguments the calls are made with *)

BadArgs == {[NoArgs EXCEPT !.bind = FALSE]}

VmArgs == {[NoArgs EXCEPT !.a = v] : v \in VMNames}

\* A VM name that is a number and not a string: it binds, and no VM has it.
NotAString == "<12>"
MistypedArgs == {[NoArgs EXCEPT !.a = NotAString]}

CreateArgs ==
    {[NoArgs EXCEPT !.a = v, !.ds = d, !.net = n] :
        v \in VMNames, d \in {None, "ds1", GhostDatastore},
        n \in {None, "net1", GhostNetwork}}

ArgsFor(name) ==
    CASE name \in NoArgTools -> {NoArgs} \cup BadArgs
      [] name \in {"create_vm", "create_vm_custom"} -> CreateArgs \cup BadArgs
      [] name = "clone_vm" ->
            {[NoArgs EXCEPT !.a = v, !.b = w] : v, w \in VMNames} \cup BadArgs
      [] name \in {"create_snapshot", "revert_snapshot"} ->
            {[NoArgs EXCEPT !.a = v, !.b = n] : v \in VMNames, n \in SnapNames}
            \cup BadArgs
      [] name = "remove_snapshot" ->
            {[NoArgs EXCEPT !.a = v, !.b = n, !.flag = f] :
                v \in VMNames, n \in SnapNames, f \in BOOLEAN} \cup BadArgs
      [] name \in {"get_host_details", "get_host_performance_metrics",
                   "get_host_hardware_health", "get_host_performance"} ->
            {[NoArgs EXCEPT !.a = h] : h \in HostNames \cup {GhostHost}}
            \cup BadArgs
      [] name = "upload_file_to_datastore" ->
            {[NoArgs EXCEPT !.ds = d] : d \in {"ds1", GhostDatastore}}
            \cup BadArgs
      [] name \in {"deploy_ovf", "deploy_ova"} ->
            {[NoArgs EXCEPT !.ds = d] : d \in {None, GhostDatastore}}
            \cup BadArgs
      [] name = "wait_for_updates" -> {NoArgs} \cup BadArgs
      [] name = "authenticate" -> {[NoArgs EXCEPT !.a = k] : k \in Keys}
      [] name \in RegisteredTools -> VmArgs \cup MistypedArgs \cup BadArgs
      [] OTHER -> {NoArgs}

\* The names callers ask for: the registered ones and two that are not.
ToolNames == RegisteredTools \cup {"authenticate", "no_such_tool"}

----------------------------------------------------------------------------
(* The wait loop of a mutating operation *)

\* while task.info.state not in [success, error]: continue
OpPoll ==
    /\ pc = "op_loop"
    /\ spins' = Min(spins + 1, MaxSpins)
    /\ pc' = IF task.state \in Terminal THEN "op_exit" ELSE "op_loop"
    /\ UNCHANGED <<inflight, config, inventory, host, perfManager, guest, wait_count, si, api_key, authenticated, scope, vms, task, call, result,
                   remote, elapsed, timeout>>

\* Mutant: the fault is replaced by a generic error.
RaisedGenericError(t) ==
    [kind |-> "error", err |-> "Exception", detail |-> "Unknown error",
     data |-> <<>>]

\* raise task.info.error: the fault itself, or a TypeError when there is none.
RaisedError(t) ==
    IF t.error = None
    THEN [kind |-> "error", err |-> "TypeError", detail |-> None, data |-> <<>>]
    ELSE [kind |-> "error", err |-> "Fault", detail |-> t.error, data |-> <<>>]

\* Mutant: a failed task is submitted once more before the error is reported.
OpExitRetrying ==
    /\ pc = "op_exit"
    /\ IF task.state = "error" /\ CountOf(remote, "submit") < 2
       THEN /\ task' = [task EXCEPT !.state = "queued", !.error = None]
            /\ remote' = remote \o <<"submit">>
            /\ pc' = "op_loop"
            /\ result' = result
       ELSE /\ result' = IF task.state = "error"
                         THEN RaisedError(task)
                         ELSE [kind |-> "ok", err |-> None, detail |-> task.kind,
                               data |-> <<>>]
            /\ pc' = "done"
            /\ UNCHANGED <<task, remote>>
    /\ UNCHANGED <<inflight, config, inventory, host, perfManager, guest, wait_count, si,
                   api_key, authenticated, scope, vms, call, elapsed, spins,
                   timeout>>

\* if task.info.state == error: raise task.info.error; else return the message
OpExit ==
    /\ pc = "op_exit"
    /\ result' = IF task.state = "error"
                 THEN RaisedError(task)
                 ELSE [kind |-> "ok", err |-> None, detail |-> task.kind,
                       data |-> <<>>]
    /\ pc' = "done"
    /\ UNCHANGED <<inflight, config, inventory, host, perfManager, guest, wait_count, si, api_key, authenticated, scope, vms, task, call, remote,
                   elapsed, spins, timeout>>

----------------------------------------------------------------------------
(* VMwareManager.wait_for_task *)

WftResult(status, message, third) ==
    [kind |-> "ok", err |-> None, detail |-> status, data |-> <<message, third>>]

\* start_time = time.time(), then the first test of the loop
wait_for_task(t, tmo) ==
    /\ pc = "idle"
    /\ call' = [via |-> "direct", name |-> "wait_for_task", args |-> NoArgs]
    /\ task' = t
    /\ timeout' = tmo
    /\ pc' = "wft_loop"
    /\ result' = NoResult
    /\ remote' = <<>>
    /\ elapsed' = 0
    /\ spins' = 0
    /\ UNCHANGED <<inflight, config, inventory, host, perfManager, guest, wait_count, si, api_key, authenticated, scope, vms>>

\* Mutant: the loop is left for the returns after it only while the timeout
\* has not passed.
WftLoopTimeoutFirst ==
    /\ pc = "wft_loop"
    /\ spins' = Min(spins + 1, MaxSpins)
    /\ pc' = IF task.state \in Terminal /\ ~(elapsed > timeout)
             THEN "wft_exit" ELSE "wft_check"
    /\ UNCHANGED <<inflight, config, inventory, host, perfManager, guest,
                   wait_count, si, api_key, authenticated, scope, vms, task,
                   call, result, remote, elapsed, timeout>>

\* while task.info.state not in [success, error]:
WftLoop ==
    /\ pc = "wft_loop"
    /\ spins' = Min(spins + 1, MaxSpins)
    /\ pc' = IF task.state \in Terminal THEN "wft_exit" ELSE "wft_check"
    /\ UNCHANGED <<inflight, config, inventory, host, perfManager, guest, wait_count, si, api_key, authenticated, scope, vms, task, call, result,
                   remote, elapsed, timeout>>

\* Mutant: the loop has no timeout test.
WftCheckWithoutTimeout ==
    /\ pc = "wft_check"
    /\ pc' = "wft_sleep"
    /\ UNCHANGED <<inflight, config, inventory, host, perfManager, guest, wait_count, si, api_key, authenticated, scope, vms, task, call, result,
                   remote, elapsed, spins, timeout>>

\* if time.time() - start_time > timeout: return {"status": "timeout", ...}
WftCheck ==
    /\ pc = "wft_check"
    /\ IF elapsed > timeout
       THEN /\ result' = WftResult("timeout", "Task timed out", task.state)
            /\ pc' = "done"
       ELSE /\ result' = result
            /\ pc' = "wft_sleep"
    /\ UNCHANGED <<inflight, config, inventory, host, perfManager, guest, wait_count, si, api_key, authenticated, scope, vms, task, call, remote,
                   elapsed, spins, timeout>>

\* time.sleep(1)
WftSleep ==
    /\ pc = "wft_sleep"
    /\ elapsed' = Min(elapsed + 1, MaxTime)
    /\ spins' = 0
    /\ pc' = "wft_loop"
    /\ UNCHANGED <<inflight, config, inventory, host, perfManager, guest, wait_count, si, api_key, authenticated, scope, vms, task, call, result,
                   remote, timeout>>

\* the two returns after the loop
WftExit ==
    /\ pc = "wft_exit"
    /\ result' = IF task.state = "success"
                 THEN WftResult("success", "Task completed successfully", None)
                 ELSE WftResult("error",
                                IF task.error # None THEN task.error
                                ELSE "Unknown error",
                                task.error)
    /\ pc' = "done"
    /\ UNCHANGED <<inflight, config, inventory, host, perfManager, guest, wait_count, si, api_key, authenticated, scope, vms, task, call, remote,
                   elapsed, spins, timeout>>

\* The tasks wait_for_task is handed: in any state, with or without a fault.
GivenTasks ==
    {[NewTask("external", None) EXCEPT !.state = st] :
        st \in {"queued", "running", "success"}}
    \cup {[NewTask("external", None) EXCEPT !.state = "error", !.error = e] :
            e \in Faults \cup {None}}

----------------------------------------------------------------------------
(* The platform: the clock and the progress of a submitted task *)

Tick ==
    /\ pc \notin {"idle", "done"}
    /\ elapsed < MaxTime
    /\ elapsed' = elapsed + 1
    /\ UNCHANGED <<inflight, config, inventory, host, perfManager, guest, wait_count, si, api_key, authenticated, scope, vms, task, pc, call, result,
                   remote, spins, timeout>>

CanSucceed(t) ==
    CASE t.kind \in {"CreateVM_Task", "CreateVM_Task_custom"} -> ~vms[t.vm].exists
      [] t.kind = "Clone" -> ~vms[t.name].exists
      [] t.kind = "CreateSnapshot" -> CountSnaps(vms[t.vm].snaps) < MaxSnaps
      [] OTHER -> TRUE

Effect(t) ==
    CASE t.kind \in {"CreateVM_Task", "CreateVM_Task_custom"} ->
            [vms EXCEPT ![t.vm] = NewVM]
      [] t.kind = "Clone" -> [vms EXCEPT ![t.name] = NewVM]
      [] t.kind = "Destroy_Task" -> [vms EXCEPT ![t.vm] = NoVM]
      [] t.kind = "PowerOnVM_Task" -> [vms EXCEPT ![t.vm].power = "poweredOn"]
      [] t.kind = "PowerOffVM_Task" -> [vms EXCEPT ![t.vm].power = "poweredOff"]
      [] t.kind = "CreateSnapshot" ->
            [vms EXCEPT ![t.vm].snaps = AddSnapshot(@, t.name)]
      [] t.kind = "RemoveSnapshot_Task" ->
            [vms EXCEPT ![t.vm].snaps = RemoveAt(@, t.path, t.flag)]
      [] t.kind = "RemoveAllSnapshots" -> [vms EXCEPT ![t.vm].snaps = <<>>]
      [] OTHER -> vms

TaskRun ==
    /\ task.state = "queued"
    /\ task' = [task EXCEPT !.state = "running"]
    /\ UNCHANGED <<inflight, config, inventory, host, perfManager, guest, wait_count, si, api_key, authenticated, scope, vms, pc, call, result,
                   remote, elapsed, spins, timeout>>

TaskSucceed ==
    /\ task.state = "running"
    /\ CanSucceed(task)
    /\ task' = [task EXCEPT !.state = "success"]
    /\ vms' = Effect(task)
    /\ UNCHANGED <<inflight, config, inventory, host, perfManager, guest, wait_count, si, api_key, authenticated, scope, pc, call, result, remote,
                   elapsed, spins, timeout>>

TaskFail ==
    /\ task.state = "running"
    /\ \E e \in Faults :
          task' = [task EXCEPT !.state = "error", !.error = e]
    /\ UNCHANGED <<inflight, config, inventory, host, perfManager, guest, wait_count, si, api_key, authenticated, scope, vms, pc, call, result,
                   remote, elapsed, spins, timeout>>

----------------------------------------------------------------------------
(* Startup: VMwareManager.__init__ / _connect_vcenter, then main *)

\* Mutant: the flag starts set.
InitAuthenticatedTrue == TRUE

\* self.authenticated = False
InitAuthenticated == FALSE

NoScope == [datacenter |-> None, resource_pool |-> None, datastore |-> None,
            network |-> None]

NoConfig == [datacenter |-> None, cluster |-> None, datastore |-> None,
             network |-> None, insecure |-> FALSE]

Connected(err, session, sc) == [raised |-> err, si |-> session, scope |-> sc]

\* config.insecure: an SSL context with check_hostname = False and CERT_NONE;
\* otherwise SmartConnect with its default verification.
SmartConnect(cfg) == IF cfg.insecure THEN "unverified" ELSE "verified"

\* Mutant: with no name, the last datacenter of the root folder is taken.
ResolveDatacenterLast(cfg, inv) ==
    IF cfg.datacenter # None
    THEN NextIndex([k \in 1..Len(inv) |->
                    IsDatacenter(inv[k]) /\ inv[k].name = cfg.datacenter])
    ELSE IF \E i \in 1..Len(inv) : IsDatacenter(inv[i])
    THEN CHOOSE i \in 1..Len(inv) :
            IsDatacenter(inv[i])
            /\ \A j \in (i + 1)..Len(inv) : ~IsDatacenter(inv[j])
    ELSE 0

\* The datacenter: the one named, else the first one of the root folder.
ResolveDatacenter(cfg, inv) ==
    IF cfg.datacenter # None
    THEN NextIndex([k \in 1..Len(inv) |->
                    IsDatacenter(inv[k]) /\ inv[k].name = cfg.datacenter])
    ELSE NextIndex([k \in 1..Len(inv) |-> IsDatacenter(inv[k])])

\* The compute resource: the cluster named, else the first compute resource.
ResolveComputeResource(cfg, dc) ==
    IF cfg.cluster # None
    THEN NextIndex([k \in 1..Len(dc.hostFolder) |->
                    IsCluster(dc.hostFolder[k]) /\ dc.hostFolder[k].name = cfg.cluster])
    ELSE NextIndex([k \in 1..Len(dc.hostFolder) |->
                    IsComputeResource(dc.hostFolder[k])])

\* Mutant: a named datastore that is not found gives way to the default.
ResolveDatastoreWithFallback(cfg, dc) ==
    LET datastores == SelectSeq(dc.datastoreFolder, IsDatastore)
        named == NextIndex([k \in 1..Len(dc.datastoreFolder) |->
                    /\ IsDatastore(dc.datastoreFolder[k])
                    /\ dc.datastoreFolder[k].name = cfg.datastore])
    IN  IF cfg.datastore # None /\ named # 0
        THEN dc.datastoreFolder[named].name
        ELSE IF datastores = <<>> THEN None
        ELSE datastores[MaxFrom(datastores, 1, 1)].name

\* The datastore: the one named, else the one with the most free space;
\* None when the search fails.
ResolveDatastore(cfg, dc) ==
    LET datastores == SelectSeq(dc.datastoreFolder, IsDatastore)
        named == NextIndex([k \in 1..Len(dc.datastoreFolder) |->
                    /\ IsDatastore(dc.datastoreFolder[k])
                    /\ dc.datastoreFolder[k].name = cfg.datastore])
    IN  IF cfg.datastore # None
        THEN (IF named = 0 THEN None ELSE dc.datastoreFolder[named].name)
        ELSE IF datastores = <<>> THEN None
        ELSE datastores[MaxFrom(datastores, 1, 1)].name

\* Mutant: the named network is taken without a search.
ResolveNetworkUnchecked(cfg, dc) == cfg.network

\* The network: the entity of the network folder that is named; None when
\* none is named or the search fails.
ResolveNetwork(cfg, dc) ==
    LET named == NextIndex([k \in 1..Len(dc.networkFolder) |->
                    dc.networkFolder[k].name = cfg.network])
    IN  IF cfg.network # None /\ named # 0
        THEN dc.networkFolder[named].name
        ELSE None

\* _connect_vcenter: what it raises (None when it returns), the session and
\* the four object references as far as they were assigned.
_connect_vcenter(cfg, inv, reachable) ==
    LET dcI == ResolveDatacenter(cfg, inv)
        dc  == inv[dcI]
        crI == ResolveComputeResource(cfg, dc)
        ds  == ResolveDatastore(cfg, dc)
        net == ResolveNetwork(cfg, dc)
        s   == SmartConnect(cfg)
        sc1 == [NoScope EXCEPT !.datacenter = dc.name]
        sc2 == [sc1 EXCEPT !.resource_pool = dc.hostFolder[crI].resourcePool]
        sc3 == [sc2 EXCEPT !.datastore = ds]
        sc4 == [sc3 EXCEPT !.network = net]
    IN  IF ~reachable THEN Connected("ConnectFailed", None, NoScope)
        ELSE IF dcI = 0
        THEN Connected(IF cfg.datacenter # None THEN "DatacenterNotFound"
                       ELSE "NoDatacenter", s, NoScope)
        ELSE IF crI = 0
        THEN Connected(IF cfg.cluster # None THEN "ClusterNotFound"
                       ELSE "NoComputeResource", s, sc1)
        ELSE IF ds = None
        THEN Connected(IF cfg.datastore # None THEN "DatastoreNotFound"
                       ELSE "NoDatastore", s, sc2)
        ELSE IF cfg.network # None /\ net = None
        THEN Connected("NetworkNotFound", s, sc3)
        ELSE Connected(None, s, sc4)

\* manager = VMwareManager(config): an exception of the constructor leaves
\* main, and the process ends.
VMwareManager_init ==
    /\ pc = "start"
    /\ \E reachable \in BOOLEAN :
          LET r == _connect_vcenter(config, inventory, reachable)
          IN  /\ si' = r.si
              /\ scope' = r.scope
              /\ IF r.raised = None
                 THEN pc' = "constructed" /\ result' = result
                 ELSE /\ pc' = "exited"
                      /\ result' = [kind |-> "error", err |-> r.raised,
                                     detail |-> None, data |-> <<>>]
    /\ authenticated' = InitAuthenticated
    /\ UNCHANGED <<inflight, config, inventory, host, perfManager, guest, wait_count, api_key, vms, task, call, remote,
                   elapsed, spins, timeout>>

\* tool_handlers = ToolHandlers(manager, config); register_handlers(...)
register_handlers ==
    /\ pc = "constructed"
    /\ pc' = "registered"
    /\ UNCHANGED <<inflight, config, inventory, host, perfManager, guest, wait_count, si, api_key, authenticated, scope, vms,
                   task, call, result, remote, elapsed, spins, timeout>>

\* mcp_server.run / uvicorn.run: the server waits for its first request.
run_server ==
    /\ pc = "registered"
    /\ pc' = "idle"
    /\ UNCHANGED <<inflight, config, inventory, host, perfManager, guest, wait_count, si, api_key, authenticated, scope, vms,
                   task, call, result, remote, elapsed, spins, timeout>>

----------------------------------------------------------------------------
(* The state after construction, and the two specifications *)

InitForests == {<<>>, <<Leaf("s1")>>}

\* The inventory the server runs against: one datacenter with a standalone
\* host, two datastores and one network.
ServedInventory ==
    <<DatacenterEntity("dc1", <<HostEntity("host1", "pool1")>>,
                       <<DatastoreEntity("ds1", 10), DatastoreEntity("ds2", 50)>>,
                       <<NetworkEntity("net1")>>)>>

\* The server after a startup that succeeded, with certificate verification
\* on: the scope is what _connect_vcenter resolved.
Init ==
    /\ api_key \in {None, "k1"}
    /\ authenticated = InitAuthenticated
    /\ \E n \in {None, "net1"} : config = [NoConfig EXCEPT !.network = n]
    /\ inventory = ServedInventory
    /\ si = SmartConnect(config)
    /\ scope = _connect_vcenter(config, inventory, TRUE).scope
    /\ \E p \in PowerStates, f \in InitForests :
          vms = [v \in VMNames |->
                    IF v = "vm1"
                    THEN [exists |-> TRUE, power |-> p, snaps |-> f]
                    ELSE NoVM]
    /\ task = NoTask
    /\ pc = "idle"
    /\ call = NoCall
    /\ result = NoResult
    /\ remote = <<>>
    /\ elapsed = 0
    /\ spins = 0
    /\ timeout = 0
    /\ host = ServedHost
    /\ perfManager = ServedPerfManager
    /\ guest = NoProcess
    /\ wait_count = 0
    /\ inflight = <<>>

CallTool == \E name \in ToolNames : \E arguments \in ArgsFor(name) :
                call_tool_handler(name, arguments)

ReadResource == \E scheme \in {"vmstats", "other"}, vm_name \in VMNames :
                    read_resource_handler(scheme, vm_name)

Next ==
    \/ CallTool
    \/ ReadResource
    \/ Reply
    \/ OpPoll
    \/ OpExit
    \/ ExecPoll
    \/ ExecGiveUp
    \/ TaskRun
    \/ TaskSucceed
    \/ TaskFail

Spec == Init /\ [][Next]_vars

\* wait_for_task applied to a task, as a caller of the manager would.
WaitForTask == \E t \in GivenTasks, tmo \in 0..MaxTimeout : wait_for_task(t, tmo)

TaskNext ==
    \/ WaitForTask
    \/ Reply
    \/ WftLoop
    \/ WftCheck
    \/ WftSleep
    \/ WftExit
    \/ Tick
    \/ TaskRun
    \/ TaskSucceed
    \/ TaskFail

\* The thread that runs wait_for_task keeps running; the platform owes nothing.
TaskSpec ==
    /\ Init
    /\ [][TaskNext]_vars
    /\ WF_vars(WftLoop)
    /\ WF_vars(WftCheck)
    /\ WF_vars(WftSleep)
    /\ WF_vars(WftExit)

----------------------------------------------------------------------------
(* Startup against any inventory, under any configuration *)

GhostDatacenter == "dc9"

\* The three datastores of the first datacenter in every order, the folder
\* without a datastore, and one with a storage pod and two equal maxima.
StartDatastoreFolders ==
    LET three == {DatastoreEntity("ds1", 10), DatastoreEntity("ds2", 50),
                  DatastoreEntity("ds3", 30)}
    IN  {t \in three \X three \X three :
            t[1] # t[2] /\ t[2] # t[3] /\ t[1] # t[3]}
        \cup {<<>>,
              <<StoragePodEntity("ds1"), DatastoreEntity("ds2", 50),
                DatastoreEntity("ds3", 50)>>}

StartHostFolders ==
    {<<>>,
     <<HostEntity("host1", "pool1")>>,
     <<ClusterEntity("c1", "poolc1"), HostEntity("host1", "pool1")>>,
     <<HostEntity("host1", "pool1"), ClusterEntity("c1", "poolc1")>>}

StartNetworkFolders ==
    {<<>>, <<NetworkEntity("net1")>>, <<NetworkFolderEntity("net1")>>}

SecondDatacenter ==
    DatacenterEntity("dc2", <<ClusterEntity("c2", "poolc2")>>,
                     <<DatastoreEntity("ds4", 20)>>, <<NetworkEntity("net2")>>)

StartInventories ==
    {<<>>}
    \cup UNION {
        LET dc1 == DatacenterEntity("dc1", hf, dsf, nf)
        IN  {<<RootFolderEntity("f"), dc1>>,
             <<dc1, SecondDatacenter>>,
             <<SecondDatacenter, dc1>>} :
        hf \in StartHostFolders, dsf \in StartDatastoreFolders,
        nf \in StartNetworkFolders}

StartConfigs ==
    [datacenter : {None, "dc2", GhostDatacenter},
     cluster : {None, "c1", "host1"},
     datastore : {None, "ds1", GhostDatastore},
     network : {None, "net1", GhostNetwork},
     insecure : BOOLEAN]

\* main before manager = VMwareManager(config)
StartInit ==
    /\ config \in StartConfigs
    /\ inventory \in StartInventories
    /\ si = None
    /\ api_key = None
    /\ authenticated = InitAuthenticated
    /\ scope = NoScope
    /\ vms = [v \in VMNames |-> IF v = "vm1" THEN NewVM ELSE NoVM]
    /\ task = NoTask
    /\ pc = "start"
    /\ call = NoCall
    /\ result = NoResult
    /\ remote = <<>>
    /\ elapsed = 0
    /\ spins = 0
    /\ timeout = 0
    /\ host = ServedHost
    /\ perfManager = ServedPerfManager
    /\ guest = NoProcess
    /\ wait_count = 0
    /\ inflight = <<>>

\* The first request the server gets: a create_vm with no datastore and no
\* network of its own.
StartServe == call_tool_handler("create_vm", [NoArgs EXCEPT !.a = "vm2"])

StartNext ==
    \/ VMwareManager_init
    \/ register_handlers
    \/ run_server
    \/ StartServe
    \/ Reply
    \/ OpPoll
    \/ OpExit
    \/ TaskRun
    \/ TaskSucceed
    \/ TaskFail

StartSpec == StartInit /\ [][StartNext]_vars

----------------------------------------------------------------------------
(* The snapshot operations on any snapshot forest *)

RECURSIVE ForestsOf(_)
\* Every forest of exactly n nodes, named from SnapNames: a first root with
\* k nodes below it, then the forest of the later roots.
ForestsOf(n) ==
    IF n = 0 THEN {<<>>}
    ELSE UNION {{<<Node(nm, cs)>> \o rest :
                    nm \in SnapNames, cs \in ForestsOf(k),
                    rest \in ForestsOf(n - 1 - k)} :
                k \in 0..(n - 1)}

Forests == UNION {ForestsOf(n) : n \in 0..MaxNodes}

\* The server after startup, its one VM with any snapshot forest.
TreeInit ==
    /\ api_key = None
    /\ authenticated = InitAuthenticated
    /\ config = NoConfig
    /\ inventory = ServedInventory
    /\ si = SmartConnect(config)
    /\ scope = _connect_vcenter(config, inventory, TRUE).scope
    /\ \E f \in Forests :
          vms = [v \in VMNames |->
                    IF v = "vm1"
                    THEN [exists |-> TRUE, power |-> "poweredOff", snaps |-> f]
                    ELSE NoVM]
    /\ task = NoTask
    /\ pc = "idle"
    /\ call = NoCall
    /\ result = NoResult
    /\ remote = <<>>
    /\ elapsed = 0
    /\ spins = 0
    /\ timeout = 0
    /\ host = ServedHost
    /\ perfManager = ServedPerfManager
    /\ guest = NoProcess
    /\ wait_count = 0
    /\ inflight = <<>>

ListSnapshots ==
    call_tool_handler("list_snapshots", [NoArgs EXCEPT !.a = "vm1"])

RemoveSnapshot == \E n \in SnapNames, f \in BOOLEAN :
    call_tool_handler("remove_snapshot",
                      [NoArgs EXCEPT !.a = "vm1", !.b = n, !.flag = f])

RevertSnapshot == \E n \in SnapNames :
    call_tool_handler("revert_snapshot", [NoArgs EXCEPT !.a = "vm1", !.b = n])

TreeNext ==
    \/ ListSnapshots
    \/ RemoveSnapshot
    \/ RevertSnapshot
    \/ Reply
    \/ OpPoll
    \/ OpExit
    \/ TaskRun
    \/ TaskSucceed
    \/ TaskFail

TreeSpec == TreeInit /\ [][TreeNext]_vars

----------------------------------------------------------------------------
(* The performance reads on any host and any performance manager *)

Hardwares ==
    {NoHardware}
    \cup {[present |-> TRUE, cpuInfo |-> ci, numCpuCores |-> n, hz |-> z,
           memorySize |-> ms] :
            ci \in BOOLEAN, n \in {0, 2, 16}, z \in {0, 999999, 2000000},
            ms \in {0, 1048575, 3145728}}

Usages == {Nothing} \cup {Some(u) : u \in 0..MaxUsage}

HostStates ==
    {[qs |-> q, overallCpuUsage |-> c, overallMemoryUsage |-> m, uptime |-> 1,
      hardware |-> hw] :
        q \in BOOLEAN, c \in Usages, m \in Usages, hw \in Hardwares}

\* The counters of the platform: the two network ones and another.
Counters ==
    {[key |-> 1, name |-> NetTransmitted], [key |-> 2, name |-> NetReceived],
     [key |-> 3, name |-> "cpu.usage.average"]}

\* The counter lists: any of the counters, each once, in any order.
CounterLists ==
    {cs \in UNION {[1..n -> Counters] : n \in 0..3} :
        \A i, j \in 1..Len(cs) : i # j => cs[i] # cs[j]}

SampleLists == {<<1>>, <<2>>, <<2, 1>>}

SeriesLists ==
    UNION {[1..n -> {Series(c, "", v) : c \in 1..2, v \in SampleLists}] :
            n \in 0..MaxSeries}

PerfManagers ==
    {[perfCounter |-> cs, fault |-> TRUE, stats |-> <<>>] : cs \in CounterLists}
    \cup {[perfCounter |-> cs, fault |-> FALSE, stats |-> <<>>] :
            cs \in CounterLists}
    \cup {[perfCounter |-> cs, fault |-> FALSE, stats |-> <<[value |-> ss]>>] :
            cs \in CounterLists, ss \in SeriesLists}

\* The server after startup, with one VM, over any host or any performance
\* manager.
PerfInit ==
    /\ api_key = None
    /\ authenticated = InitAuthenticated
    /\ config = NoConfig
    /\ inventory = ServedInventory
    /\ si = SmartConnect(config)
    /\ scope = _connect_vcenter(config, inventory, TRUE).scope
    /\ vms = [v \in VMNames |-> IF v = "vm1" THEN NewVM ELSE NoVM]
    /\ task = NoTask
    /\ pc = "idle"
    /\ call = NoCall
    /\ result = NoResult
    /\ remote = <<>>
    /\ elapsed = 0
    /\ spins = 0
    /\ timeout = 0
    /\ \/ host \in HostStates /\ perfManager = ServedPerfManager
       \/ host = ServedHost /\ perfManager \in PerfManagers
    /\ guest = NoProcess
    /\ wait_count = 0
    /\ inflight = <<>>

GetHostPerformance == \E h \in HostNames \cup {GhostHost} :
    call_tool_handler("get_host_performance", [NoArgs EXCEPT !.a = h])

GetVmPerformance == \E v \in VMNames :
    call_tool_handler("get_vm_performance", [NoArgs EXCEPT !.a = v])

ReadVmStats == \E v \in VMNames : read_resource_handler("vmstats", v)

PerfNext ==
    \/ GetHostPerformance
    \/ GetVmPerformance
    \/ ReadVmStats
    \/ Reply

PerfSpec == PerfInit /\ [][PerfNext]_vars

----------------------------------------------------------------------------
(* execute_program_in_vm against a guest whose process changes meanwhile *)

ExecuteProgram == \E v \in VMNames :
    call_tool_handler("execute_program_in_vm", [NoArgs EXCEPT !.a = v])

ExecNext ==
    \/ ExecuteProgram
    \/ ExecPoll
    \/ ExecGiveUp
    \/ GuestExit
    \/ GuestListing
    \/ Reply

\* The thread that serves the call keeps running; the guest owes nothing.
ExecSpec ==
    /\ Init
    /\ [][ExecNext]_vars
    /\ WF_vars(ExecPoll)
    /\ WF_vars(ExecGiveUp)

----------------------------------------------------------------------------
(* The event loop: requests arrive while a call is being served *)

\* The requests that arrive: a power-on of a VM and a read-only listing.
ArrivingCalls ==
    {[name |-> "power_on_vm", args |-> [NoArgs EXCEPT !.a = v]] : v \in VMNames}
    \cup {[name |-> "list_vms", args |-> NoArgs]}

\* A request is received; it waits for the event loop to run its handler.
Arrive ==
    /\ Len(inflight) < MaxInflight
    /\ \E r \in ArrivingCalls : inflight' = Append(inflight, r)
    /\ UNCHANGED <<config, inventory, si, api_key, authenticated, scope, vms,
                   task, pc, call, result, remote, elapsed, spins, timeout,
                   host, perfManager, guest, wait_count>>

\* The event loop runs the handler of the oldest request when no handler is
\* running: call_tool_handler has no await before its return.
Serve ==
    /\ inflight # <<>>
    /\ call_tool_handler(inflight[1].name, inflight[1].args)

LoopNext ==
    \/ Arrive
    \/ Serve
    \/ Reply
    \/ OpPoll
    \/ OpExit
    \/ TaskRun
    \/ TaskSucceed
    \/ TaskFail

\* The event loop keeps running what it can run; the platform owes nothing:
\* a task may stay queued or running for ever.
LoopSpec ==
    /\ Init
    /\ [][LoopNext]_vars
    /\ WF_vars(Serve)
    /\ WF_vars(Reply)
    /\ WF_vars(OpPoll)
    /\ WF_vars(OpExit)

----------------------------------------------------------------------------
(* The claims *)

WftPcs == {"wft_loop", "wft_check", "wft_sleep", "wft_exit"}

GatedCall ==
    \/ call.via = "tool" /\ call.name \in RegisteredTools
    \/ call.via = "resource" /\ call.name = "vmstats"

\* C1: with a key configured and the flag unset, every call of a registered
\* tool and every read of the vmstats resource ends in the Unauthorized error
\* and makes no platform call.
C1_UnauthorizedForEveryCall ==
    (pc = "done" /\ api_key # None /\ ~authenticated /\ GatedCall)
        => (result.kind = "error" /\ result.err = "Unauthorized"
            /\ remote = <<>>)

\* C2: with a key configured, an authenticate call that gives the configured
\* key succeeds and sets the flag, so that the gate admits the calls after it.
C2_AuthenticateOpensGate ==
    (pc = "done" /\ api_key # None /\ call.via = "tool"
     /\ call.name = "authenticate" /\ call.args.a = api_key)
        => (result.kind = "ok" /\ authenticated)

\* C3: the flag is unset at the start; a step changes it only by setting it,
\* and only in answer to an authenticate call that gives the configured key;
\* so once set it stays set.
C3_FlagSetOnlyByAuthenticate ==
    /\ ~authenticated
    /\ [][authenticated' # authenticated
            => (/\ ~authenticated /\ authenticated'
                /\ api_key # None
                /\ call'.name = "authenticate"
                /\ call'.args.a = api_key)]_vars

C3_Witness ==
    /\ pc = "done" /\ api_key # None /\ ~authenticated
    /\ call.name = "authenticate" /\ call.args.a # api_key
    /\ result.kind = "error"

\* C4: with no key configured no call ends in the Unauthorized error,
\* whatever the flag is.
C4_NoKeyNeverUnauthorized ==
    api_key = None => result.err # "Unauthorized"

C4_Witness ==
    /\ pc = "done" /\ api_key = None /\ ~authenticated
    /\ call.name = "list_vms" /\ result.kind = "ok" /\ remote = <<"lookup">>

\* C5: a call of a name that is no registered tool is answered at once with
\* the unknown-tool error: no handler ran (not even the auth gate), no
\* platform call was made, no task was submitted, the error names no
\* registered tool, and the response is ready to go out so that the next call
\* can be served.
C5_UnknownToolError ==
    (call.via = "tool" /\ call.name \notin RegisteredTools)
        => (/\ pc = "done"
            /\ result.kind = "error" /\ result.err = "UnknownTool"
            /\ result.detail \notin RegisteredTools
            /\ remote = <<>>
            /\ task = NoTask
            /\ ENABLED Reply)

C5_Witness ==
    /\ pc = "done" /\ api_key # None
    /\ call.name = "no_such_tool" /\ result.err = "UnknownTool"

\* C6: a mutating operation that waits for its task waits inside
\* wait_for_task, which has a timeout.
C6_WaitsThroughExecutor ==
    (call.via = "tool" /\ call.name \in MutatingTools
     /\ pc \notin {"idle", "done"})
        => pc \in WftPcs

C8_SleepBetweenPolls == spins <= 1

\* C9: when the task of a mutating operation ends in error, the operation
\* fails and its error is the fault the platform put in the task, unchanged.
C9_FaultPropagated ==
    (pc = "done" /\ call.via = "tool" /\ call.name \in MutatingTools
     /\ task.state = "error" /\ task.error # None)
        => (result.kind = "error" /\ result.err = "Fault"
            /\ result.detail = task.error)

C9_Witness ==
    /\ pc = "done" /\ call.name = "remove_snapshot"
    /\ task.state = "error" /\ task.error = "F2"
    /\ result.kind = "error" /\ result.detail = "F2"

AdmittedPowerCall(name, power) ==
    /\ pc = "idle" /\ call'.via = "tool" /\ call'.name = name
    /\ call'.args.bind /\ _check_auth
    /\ find_vm(call'.args.a) # None
    /\ vms[call'.args.a].power = power

InformedWithoutTask(text) ==
    /\ pc' = "done"
    /\ result' = [kind |-> "ok", err |-> None, detail |-> text, data |-> <<>>]
    /\ remote' = <<"lookup">>
    /\ task' = NoTask
    /\ vms' = vms

\* C10: power_on_vm on a VM that is powered on, and power_off_vm on a VM that
\* is powered off, return their informational message in the same step: no
\* task is submitted and the inventory is as it was.
C10_PowerIdempotent ==
    [][/\ AdmittedPowerCall("power_on_vm", "poweredOn")
            => InformedWithoutTask("already powered on")
       /\ AdmittedPowerCall("power_off_vm", "poweredOff")
            => InformedWithoutTask("already powered off")]_vars

C10_Witness ==
    /\ pc = "done" /\ call.name = "power_on_vm"
    /\ call.args.a \in VMNames
    /\ vms[call.args.a].exists /\ vms[call.args.a].power = "poweredOn"
    /\ result.detail = "already powered on" /\ task = NoTask

----------------------------------------------------------------------------
(* Snapshot forests: the order the claims speak of, stated on paths *)

RECURSIVE PathsOf(_)
\* The paths (child indices from the roots) of all nodes of a forest.
PathsOf(forest) ==
    UNION {{<<i>>} \cup {<<i>> \o p : p \in PathsOf(forest[i].children)} :
           i \in 1..Len(forest)}

RECURSIVE NodeAt(_, _)
NodeAt(forest, path) ==
    IF Len(path) = 1 THEN forest[path[1]]
    ELSE NodeAt(forest[path[1]].children, Tail(path))

\* p is visited before q in depth-first pre-order: p is an ancestor of q, or
\* at the first place they differ p takes the earlier child.
Before(p, q) ==
    \/ Len(p) < Len(q) /\ SubSeq(q, 1, Len(p)) = p
    \/ \E i \in 1..Min(Len(p), Len(q)) :
          /\ SubSeq(p, 1, i - 1) = SubSeq(q, 1, i - 1)
          /\ p[i] < q[i]

Carrying(forest, name) == {p \in PathsOf(forest) : NodeAt(forest, p).name = name}

FirstCarrying(forest, name) ==
    {p \in Carrying(forest, name) :
        \A q \in Carrying(forest, name) : ~Before(q, p)}

Rank(forest, p) == 1 + Cardinality({q \in PathsOf(forest) : Before(q, p)})

SnapshotCall(name) ==
    /\ pc = "idle" /\ call'.via = "tool" /\ call'.name = name
    /\ call'.args.bind /\ _check_auth
    /\ find_vm(call'.args.a) # None

\* C11: on every forest and for every name _find_snapshot_by_name gives the
\* first node of that name in depth-first pre-order, and nothing exactly when
\* no node has the name; remove_snapshot and revert_snapshot submit their task
\* on that node, and fail without a task when there is none.
C11_FindFirstInPreOrder ==
    /\ [](\A v \in VMNames, n \in SnapNames :
            LET f == vms[v].snaps
                r == _find_snapshot_by_name(f, n)
            IN  /\ (r = <<>>) <=> (Carrying(f, n) = {})
                /\ (r # <<>>) => (r \in FirstCarrying(f, n)))
    /\ [][\A op \in {"remove_snapshot", "revert_snapshot"} :
            SnapshotCall(op) =>
                LET f == vms[call'.args.a].snaps
                    first == FirstCarrying(f, call'.args.b)
                IN  IF first = {}
                    THEN /\ pc' = "done" /\ result'.kind = "error"
                         /\ (f # <<>> => result'.err = "NotFound")
                         /\ task' = NoTask
                    ELSE /\ pc' = "op_loop"
                         /\ task'.vm = call'.args.a
                         /\ task'.path \in first]_vars

C11_Witness ==
    /\ pc = "op_loop" /\ call.name = "remove_snapshot" /\ call.args.b = "s2"
    /\ task.state = "queued" /\ task.path = <<1, 1>>
    /\ vms["vm1"].snaps = <<Node("s1", <<Leaf("s2")>>), Leaf("s2")>>

\* C12: list_snapshots on an existing VM returns one record per node of the
\* forest, in depth-first pre-order, each with its depth (0 for a root); the
\* empty forest gives the empty list.
C12_FlattenPreOrderWithDepth ==
    (pc = "done" /\ call.via = "tool" /\ call.name = "list_snapshots"
     /\ call.args.bind /\ _check_auth /\ find_vm(call.args.a) # None)
        => LET f == vms[call.args.a].snaps
           IN  /\ result.kind = "ok"
               /\ Len(result.data) = Cardinality(PathsOf(f))
               /\ \A p \in PathsOf(f) :
                     result.data[Rank(f, p)] =
                        [name |-> NodeAt(f, p).name, level |-> Len(p) - 1]

C12_Witness ==
    /\ pc = "done" /\ call.name = "list_snapshots"
    /\ vms["vm1"].snaps = <<Node("s1", <<Node("s2", <<Leaf("s1")>>)>>), Leaf("s2")>>
    /\ result.data = <<[name |-> "s1", level |-> 0], [name |-> "s2", level |-> 1],
                       [name |-> "s1", level |-> 2], [name |-> "s2", level |-> 0]>>

Constructed == pc \notin {"start", "exited"}

\* C13: after a startup that did not fail, every component the configuration
\* names is bound to an entity of exactly that name (a datacenter of the root
\* folder, a cluster, datastore and network of that datacenter).
C13_NamedOrFail ==
    Constructed =>
        /\ config.datacenter # None =>
              /\ scope.datacenter = config.datacenter
              /\ \E i \in 1..Len(inventory) :
                    IsDatacenter(inventory[i])
                    /\ inventory[i].name = config.datacenter
        /\ config.cluster # None =>
              \E i \in 1..Len(datacenter_obj.hostFolder) :
                 LET cr == datacenter_obj.hostFolder[i]
                 IN  /\ IsCluster(cr) /\ cr.name = config.cluster
                     /\ cr.resourcePool = scope.resource_pool
        /\ config.datastore # None =>
              /\ scope.datastore = config.datastore
              /\ \E i \in 1..Len(datacenter_obj.datastoreFolder) :
                    LET ds == datacenter_obj.datastoreFolder[i]
                    IN  IsDatastore(ds) /\ ds.name = config.datastore
        /\ config.network # None =>
              /\ scope.network = config.network
              /\ \E i \in 1..Len(datacenter_obj.networkFolder) :
                    datacenter_obj.networkFolder[i].name = config.network

C13_Witness ==
    /\ pc = "idle"
    /\ config.datacenter = "dc2" /\ scope.datacenter = "dc2"
    /\ config.datastore = None /\ scope.datastore = "ds4"
    /\ config.cluster = None /\ config.network = None
    /\ Len(inventory) = 2 /\ inventory[1].name = "dc1"

\* C14: with no datastore configured, the datastore bound at startup is one of
\* the datacenter's datastores and none of them has more free space.
C14_DefaultDatastoreMaxFree ==
    (Constructed /\ config.datastore = None) =>
        LET dss == SelectSeq(datacenter_obj.datastoreFolder, IsDatastore)
        IN  \E i \in 1..Len(dss) :
               /\ dss[i].name = scope.datastore
               /\ \A j \in 1..Len(dss) : dss[j].freeSpace <= dss[i].freeSpace

C14_Witness ==
    /\ pc = "idle" /\ config.datastore = None
    /\ scope.datacenter = "dc1" /\ scope.datastore = "ds2"
    /\ datacenter_obj.datastoreFolder =
          <<DatastoreEntity("ds1", 10), DatastoreEntity("ds3", 30),
            DatastoreEntity("ds2", 50)>>

\* C15: with no name configured the datacenter is the first datacenter of the
\* root folder, the resource pool that of the first compute resource of that
\* datacenter, and the default network none; a create_vm with no network of its
\* own and no default network submits a VM without a network adapter.
C15_DefaultsDeterministic ==
    /\ Constructed =>
          /\ config.datacenter = None =>
                \E i \in 1..Len(inventory) :
                   /\ IsDatacenter(inventory[i])
                   /\ inventory[i].name = scope.datacenter
                   /\ \A j \in 1..(i - 1) : ~IsDatacenter(inventory[j])
          /\ config.cluster = None =>
                \E i \in 1..Len(datacenter_obj.hostFolder) :
                   /\ IsComputeResource(datacenter_obj.hostFolder[i])
                   /\ datacenter_obj.hostFolder[i].resourcePool
                         = scope.resource_pool
                   /\ \A j \in 1..(i - 1) :
                         ~IsComputeResource(datacenter_obj.hostFolder[j])
          /\ config.network = None => scope.network = None
    /\ (call.name \in {"create_vm", "create_vm_custom"}
        /\ task.kind \in {"CreateVM_Task", "CreateVM_Task_custom"}
        /\ call.args.net = None /\ scope.network = None)
          => task.net = None

C15_Witness ==
    /\ pc = "op_loop" /\ call.name = "create_vm" /\ task.kind = "CreateVM_Task"
    /\ task.net = None /\ config.network = None
    /\ config.datacenter = None /\ config.cluster = None
    /\ Len(inventory) = 2 /\ inventory[1].kind = "Folder"
    /\ scope.datacenter = "dc1" /\ scope.resource_pool = "poolc1"
    /\ datacenter_obj.hostFolder[2].name = "host1"

\* The datacenters that can be bound, and of the first of them the compute
\* resources that can.
DatacenterCandidates ==
    {i \in 1..Len(inventory) :
        /\ IsDatacenter(inventory[i])
        /\ config.datacenter # None => inventory[i].name = config.datacenter}

FirstCandidate ==
    inventory[CHOOSE i \in DatacenterCandidates :
                \A j \in DatacenterCandidates : i <= j]

ResolutionMustFail ==
    \/ DatacenterCandidates = {}
    \/ ~\E i \in 1..Len(FirstCandidate.hostFolder) :
          LET cr == FirstCandidate.hostFolder[i]
          IN  IF config.cluster # None
              THEN IsCluster(cr) /\ cr.name = config.cluster
              ELSE IsComputeResource(cr)
    \/ /\ config.datastore # None
       /\ ~\E i \in 1..Len(FirstCandidate.datastoreFolder) :
             LET ds == FirstCandidate.datastoreFolder[i]
             IN  IsDatastore(ds) /\ ds.name = config.datastore
    \/ /\ config.network # None
       /\ ~\E i \in 1..Len(FirstCandidate.networkFolder) :
             FirstCandidate.networkFolder[i].name = config.network

\* C16: when the connection fails, a required component has no candidate, or
\* a named datastore or network is not found, the process ends in startup: it
\* never registers handlers and never serves a call; a network that is merely
\* not configured fails nothing.
C16_StartupFailureIsFatal ==
    /\ [](ResolutionMustFail => pc \in {"start", "exited"})
    /\ [](Constructed => si # None)
    /\ [][pc = "exited" => pc' = "exited"]_vars
    /\ []((pc = "exited" /\ result.err = "NetworkNotFound")
            => config.network # None)

C16_Witness ==
    /\ pc = "exited" /\ result.err = "NetworkNotFound" /\ si # None
    /\ config.network = GhostNetwork /\ scope.datastore # None

\* C17: with insecure mode off, neither the session nor an upload is made
\* without certificate verification.
C17_VerificationUnlessInsecure ==
    ~config.insecure =>
        /\ si # "unverified"
        /\ \A i \in 1..Len(remote) : remote[i] # Upload(FALSE)

\* C18: a call never ends with an error that left the gateway's handler: its
\* outcome is a result, or a failure response the handler returned.
C18_ErrorsCaughtAtGateway ==
    (pc = "done" /\ call.via \in {"tool", "resource"})
        => result.kind \in {"ok", "failure"}

Malformed(args) == ~args.bind \/ args.a = NotAString

\* C19: a call of a registered tool with malformed arguments (a field missing,
\* undeclared or of the wrong type) ends in the invalid-argument error and
\* makes no platform call.
C19_ArgumentsValidatedFirst ==
    (pc = "done" /\ call.via = "tool" /\ call.name \in RegisteredTools
     /\ Malformed(call.args))
        => (result.kind = "error" /\ result.err = "TypeError"
            /\ remote = <<>>)

\* The call being made names an entity the inventory does not have.
NamesAbsentEntity ==
    LET name == call'.name
        args == call'.args
    IN  /\ pc = "idle" /\ call'.via \in {"tool", "resource"}
        /\ args.bind /\ _check_auth
        /\ \/ /\ call'.via = "resource" /\ name = "vmstats"
              /\ find_vm(args.a) = None
           \/ /\ call'.via = "tool"
              /\ \/ /\ name \in {"clone_vm", "delete_vm", "power_on_vm",
                                  "power_off_vm", "get_vm_details",
                                  "get_vm_performance", "get_vm_summary_stats",
                                  "create_snapshot", "remove_snapshot",
                                  "revert_snapshot", "list_snapshots",
                                  "remove_all_snapshots",
                                  "execute_program_in_vm", "upload_file_to_vm"}
                    /\ find_vm(args.a) = None
                 \/ /\ name \in {"remove_snapshot", "revert_snapshot"}
                    /\ find_vm(args.a) # None
                    /\ Carrying(vms[args.a].snaps, args.b) = {}
                 \/ /\ name \in {"get_host_details",
                                  "get_host_performance_metrics",
                                  "get_host_hardware_health",
                                  "get_host_performance"}
                    /\ find_host(args.a) = None
                 \/ /\ name \in {"create_vm", "create_vm_custom", "deploy_ovf",
                                  "deploy_ova"}
                    /\ \/ args.ds # None /\ find_datastore(args.ds) = None
                       \/ args.net # None /\ find_network(args.net) = None
                 \/ /\ name = "upload_file_to_datastore"
                    /\ find_datastore_in_view(args.ds) = None

\* C20: a call that names an entity the inventory does not have ends at once
\* in the not-found error: no task is submitted and the inventory is as it was.
C20_AbsentEntityNotFound ==
    [][NamesAbsentEntity =>
          /\ pc' = "done"
          /\ result'.kind = "error" /\ result'.err = "NotFound"
          /\ task' = NoTask
          /\ vms' = vms
          /\ \A i \in 1..Len(remote') : remote'[i] # "submit"]_vars

----------------------------------------------------------------------------
(* C21..C30 *)

\* get_host_performance has answered for a host of the inventory that has
\* hardware information and whose reported usages are numbers.
HostPerformanceCall ==
    /\ pc = "done"
    /\ call.via = "tool"
    /\ call.name = "get_host_performance"
    /\ call.args.bind
    /\ call.args.a \in HostNames
    /\ host.hardware.present
    /\ host.qs => host.overallCpuUsage # Nothing /\ host.overallMemoryUsage # Nothing

\* The host's capacities, from its hardware.
CpuCapacity ==
    IF host.hardware.cpuInfo
    THEN host.hardware.numCpuCores * (host.hardware.hz \div 1000000)
    ELSE 0
MemoryCapacity == host.hardware.memorySize \div 1048576

\* pct (in hundredths of a percent) is usage / total * 100 to the nearest
\* hundredth.
IsPercentOf(pct, usage, total) ==
    /\ 2 * (pct * total - usage * 10000) <= total
    /\ 2 * (usage * 10000 - pct * total) <= total

\* C21: get_host_performance reports cpu_usage_percent = 0 when the host's
\* total CPU capacity is 0 and memory_usage_percent = 0 when its total memory
\* is 0, for every usage, without a division-by-zero fault; when the total is
\* positive the percentage is usage / total * 100 (to two decimals).
C21_PercentOrZero ==
    HostPerformanceCall =>
        /\ result.kind = "ok"
        /\ LET st == result.data[1]
           IN  /\ st.cpu_total_mhz = CpuCapacity
               /\ st.memory_total_mb = MemoryCapacity
               /\ CpuCapacity = 0 => st.cpu_usage_percent = 0
               /\ MemoryCapacity = 0 => st.memory_usage_percent = 0
               /\ CpuCapacity > 0 =>
                     IsPercentOf(st.cpu_usage_percent, st.cpu_usage_mhz[1],
                                 CpuCapacity)
               /\ MemoryCapacity > 0 =>
                     IsPercentOf(st.memory_usage_percent,
                                 st.memory_usage_mb[1], MemoryCapacity)

\* A host with no CPU capacity and no memory reports a usage, and both
\* percentages are 0.
C21_Witness ==
    /\ HostPerformanceCall
    /\ host.qs
    /\ host.overallCpuUsage = Some(MaxUsage)
    /\ host.overallMemoryUsage = Some(MaxUsage)
    /\ CpuCapacity = 0
    /\ MemoryCapacity = 0
    /\ result.kind = "ok"
    /\ result.data[1].cpu_usage_percent = 0
    /\ result.data[1].memory_usage_percent = 0

\* get_vm_performance has answered for a VM of the inventory, asked as a
\* tool or read as the vmstats resource.
VmPerformanceCall ==
    /\ pc = "done"
    /\ \/ call.via = "tool" /\ call.name = "get_vm_performance"
       \/ call.via = "resource" /\ call.name = "vmstats"
    /\ call.args.bind
    /\ call.args.a \in VMNames
    /\ vms[call.args.a].exists

\* The network counters cannot be read: none of the two is listed, one only
\* is listed, the query fails, or it gives no entity.
NetworkUnavailable ==
    LET listed == {perfManager.perfCounter[i].name :
                        i \in 1..Len(perfManager.perfCounter)}
    IN  \/ NetTransmitted \notin listed
        \/ NetReceived \notin listed
        \/ perfManager.fault
        \/ perfManager.stats = <<>>

\* C22: get_vm_performance on an existing VM never fails because the network
\* counters are unavailable: it returns the CPU, memory and storage fields,
\* with each network field null or a value.
C22_NetworkFailureTolerated ==
    VmPerformanceCall =>
        /\ result.kind = "ok"
        /\ Len(result.data) = 1
        /\ LET st == result.data[1]
           IN  /\ st.cpu_usage = VmQuickStats.cpu_usage
               /\ st.memory_usage = VmQuickStats.memory_usage
               /\ st.storage_usage = VmQuickStats.storage_usage
               /\ \A f \in {st.network_transmit_KBps, st.network_receive_KBps} :
                     f = Nothing \/ (Len(f) = 1 /\ f[1] \in Nat)

\* The query for the two listed counters fails, and the call returns with
\* null network fields.
C22_Witness ==
    /\ VmPerformanceCall
    /\ NetworkUnavailable
    /\ perfManager.fault
    /\ counter_ids_from(perfManager.perfCounter, 1) # <<>>
    /\ result.kind = "ok"
    /\ result.data[1].network_transmit_KBps = Nothing
    /\ result.data[1].network_receive_KBps = Nothing

RECURSIVE SamplesFrom(_, _, _)
\* The sum of the samples of the series of one counter, from series i on.
SamplesFrom(series, i, key) ==
    IF i > Len(series) THEN 0
    ELSE (IF series[i].id.counterId = key THEN Sum(series[i].value) ELSE 0)
         + SamplesFrom(series, i + 1, key)

\* The sum of the samples the platform holds for the counter of that name
\* (0 when the counter is not listed).
SamplesOf(name) ==
    LET keys == {perfManager.perfCounter[i].key :
                    i \in {j \in 1..Len(perfManager.perfCounter) :
                              perfManager.perfCounter[j].name = name}}
    IN  IF keys = {} \/ perfManager.stats = <<>> THEN 0
        ELSE SamplesFrom(perfManager.stats[1].value, 1, CHOOSE k \in keys : TRUE)

\* C29: network_transmit_KBps is the sum of the samples of the
\* net.transmitted.average counter and network_receive_KBps the sum of the
\* samples of net.received.average, whatever the order of the two counters
\* in the counter list and whether one or both exist.
C29_CountersNotSwapped ==
    (VmPerformanceCall /\ result.kind = "ok"
        /\ result.data[1].network_transmit_KBps # Nothing) =>
        /\ result.data[1].network_transmit_KBps = Some(SamplesOf(NetTransmitted))
        /\ result.data[1].network_receive_KBps = Some(SamplesOf(NetReceived))

\* execute_program_in_vm is being served and has started the program.
ProgramStarted ==
    /\ call.via = "tool"
    /\ call.name = "execute_program_in_vm"
    /\ CountOf(remote, "guest_start") > 0

\* What holds in every state of a call that started its program: one start,
\* no more than 30 polls, one second slept after each poll that did not end
\* the call; status completed carries the exit code the guest shows, and
\* status running is returned after exactly 30 polls.
ExecBounded ==
    ProgramStarted =>
        /\ CountOf(remote, "guest_start") = 1
        /\ CountOf(remote, "guest_list") <= 30
        /\ pc = "exec_loop" => elapsed = CountOf(remote, "guest_list")
        /\ (pc = "done" /\ result.kind = "ok" /\ result.detail = "completed") =>
              /\ guest.listed
              /\ guest.exitCode # Nothing
              /\ result.data[1].exit_code = guest.exitCode[1]
              /\ elapsed = CountOf(remote, "guest_list") - 1
        /\ (pc = "done" /\ result.kind = "ok" /\ result.detail = "running") =>
              /\ CountOf(remote, "guest_list") = 30
              /\ elapsed = 30
        /\ (pc = "done" /\ result.kind = "ok") =>
              result.detail \in {"completed", "running"}

\* A poll that finds the process listed with an exit code ends the call with
\* status completed (or with the fault of the poll itself).
ExecReturnsAtExitCode ==
    (pc = "exec_loop" /\ remote' # remote /\ guest.listed
        /\ guest.exitCode # Nothing) =>
        /\ pc' = "done"
        /\ result'.kind = "ok" => result'.detail = "completed"

\* C23: execute_program_in_vm starts the program once and polls the guest
\* process status at most 30 times, one second apart; it returns completed
\* with the exit code as soon as a poll shows one, returns running after the
\* 30th poll if none did, and always terminates.
C23_PollsAtMostThirty ==
    /\ []ExecBounded
    /\ [][ExecReturnsAtExitCode]_vars
    /\ (pc = "exec_loop") ~> (pc = "done")

\* The process list was empty or without an exit code at each of 30 polls,
\* and the call returned status running.
C23_Witness ==
    /\ ProgramStarted
    /\ pc = "done"
    /\ result.kind = "ok"
    /\ result.detail = "running"
    /\ ~guest.listed
    /\ CountOf(remote, "guest_list") = 30

\* C24: every operation of the catalog is executable: an authorized call
\* with valid arguments to any registered operation, deploy_ovf, deploy_ova
\* and wait_for_updates included, reaches an implemented handler; it does not
\* end on a manager method that does not exist.
C24_EveryOperationExecutable ==
    (/\ pc = "done"
     /\ call.via = "tool"
     /\ call.name \in RegisteredTools
     /\ call.args.bind
     /\ _check_auth) =>
        result.err # "AttributeError"

\* C25: the authorization check is made before the operation name is looked
\* up and before the arguments are bound: with a key configured and the flag
\* unset, a call is answered Unauthorized whatever its name (registered or
\* not) and whatever its arguments (binding or not).
C25_AuthorizedBeforeRouted ==
    (pc = "done" /\ call.via = "tool" /\ api_key # None /\ ~authenticated) =>
        (result.kind = "error" /\ result.err = "Unauthorized")

\* create_vm or create_vm_custom has submitted its task.
CreateSubmitted ==
    /\ pc = "op_loop"
    /\ call.via = "tool"
    /\ call.name \in {"create_vm", "create_vm_custom"}

\* The task of a create call uses the datastore and the network the call
\* names, and the stored default where it names none.
ExplicitNameWins ==
    CreateSubmitted =>
        /\ task.ds = IF call.args.ds # None THEN call.args.ds
                     ELSE scope.datastore
        /\ task.net = IF call.args.net # None THEN call.args.net
                      ELSE scope.network

\* C26: no operation changes the resolved scope (datacenter, resource pool,
\* default datastore, default network) after startup; a create_vm or
\* create_vm_custom call that names a datastore or a network uses the named
\* object for that call and leaves the stored defaults as they were.
C26_ScopeNeverChanged == [][scope' = scope /\ ExplicitNameWins']_vars

\* A create call named a datastore other than the default one: its task uses
\* the named datastore and the default is still the one resolved at startup.
C26_Witness ==
    /\ CreateSubmitted
    /\ call.args.ds = "ds1"
    /\ task.ds = "ds1"
    /\ scope.datastore = "ds2"
    /\ scope = _connect_vcenter(config, inventory, TRUE).scope

\* A call has submitted at most one task, and a call that reports its
\* task's failure submitted that task once.
OneSubmission ==
    /\ CountOf(remote, "submit") <= 1
    /\ (pc = "done" /\ task.state = "error") =>
          (result.kind = "error" /\ CountOf(remote, "submit") = 1)

\* C27: no operation retries a remote call: within one call a mutating
\* operation submits at most one task, and when the task fails the failure is
\* reported without the task being submitted again.
C27_NoRetry ==
    [][/\ OneSubmission'
       /\ (pc \in {"op_loop", "op_exit"}) => (remote' = remote)]_vars

\* The task of a call failed, and the call reported the fault after its one
\* submission.
C27_Witness ==
    /\ pc = "done"
    /\ call.name \in MutatingTools
    /\ task.state = "error"
    /\ result.kind = "error"
    /\ result.err = "Fault"
    /\ CountOf(remote, "submit") = 1

\* C28: a wait suspends its own call and not the process: with two calls in
\* flight, the first in its wait loop, a call is answered whether or not the
\* first call's task ever ends.
C28_WaitSuspendsOnlyItsCall ==
    (Len(inflight) = 2 /\ pc = "op_loop") ~> (Len(inflight) < 2)

\* wait_for_task returns in this step.
WftReturns == pc \in WftPcs /\ pc' = "done"

\* The status is one of the three; success and error are returned after the
\* loop, for the terminal state read there, and for no other state; timeout
\* is returned from inside the loop, whose test had read a state that is not
\* terminal, at an elapsed time beyond the timeout.
StatusFollowsState ==
    WftReturns =>
        /\ result'.kind = "ok"
        /\ result'.detail \in {"success", "error", "timeout"}
        /\ result'.detail = "success" <=> (pc = "wft_exit" /\ task.state = "success")
        /\ result'.detail = "error" <=> (pc = "wft_exit" /\ task.state = "error")
        /\ result'.detail = "timeout" => (pc = "wft_check" /\ elapsed > timeout)

\* A test of the loop that reads a terminal state leaves the loop for the
\* returns after it, whatever the elapsed time.
TerminalFirst ==
    (pc = "wft_loop" /\ pc' # pc /\ task.state \in Terminal) => pc' = "wft_exit"

====
